---- MODULE Spec2Model ----
(***************************************************************************)
(* gongmiri: Shapefile-ZIP viewer.  The viewer (src/src/viewer/App.vue)    *)
(* inspects a dropped archive, sends parse requests to a parser worker     *)
(* (src/src/viewer/workers/parser.ts; the variant that also posts progress *)
(* messages is embedded in src/scripts/parse-benchmark.mjs, lines 155-462) *)
(* and applies the worker's replies.                                       *)
(*                                                                         *)
(* Texts (file names, .prj and .cpg contents) are sequences of one-        *)
(* character strings, so that trim / toLowerCase / includes / the regular  *)
(* expressions of the source are computed and not assumed.                 *)
(* Binary members (.shp, .dbf, .shx) are abstracted to a record count `n`  *)
(* and a flag `ok` (FALSE: the external shpjs decoder throws on them).     *)
(***************************************************************************)
EXTENDS Integers, Sequences, FiniteSets, TLC

(***************************************************************************)
(* Text helpers                                                            *)
(***************************************************************************)
UpperChars == <<"A","B","C","D","E","F","G","H","I","J","K","L","M",
                "N","O","P","Q","R","S","T","U","V","W","X","Y","Z">>
LowerChars == <<"a","b","c","d","e","f","g","h","i","j","k","l","m",
                "n","o","p","q","r","s","t","u","v","w","x","y","z">>
DigitChars == <<"0","1","2","3","4","5","6","7","8","9">>

\* String.prototype.toLowerCase, one character
LowerChar(c) ==
  IF \E i \in 1..26 : UpperChars[i] = c
  THEN LowerChars[CHOOSE i \in 1..26 : UpperChars[i] = c]
  ELSE c

\* String.prototype.toLowerCase
ToLowerCase(s) == [i \in 1..Len(s) |-> LowerChar(s[i])]

\* white space as String.prototype.trim and the regex class \s see it
IsSpace(c) == c \in {" ", "\t", "\n", "\r"}

IsDigit(c) == \E i \in 1..10 : DigitChars[i] = c

DigitVal(c) == (CHOOSE i \in 1..10 : DigitChars[i] = c) - 1

RECURSIVE TrimStart(_)
TrimStart(s) ==
  IF s # <<>> /\ IsSpace(Head(s)) THEN TrimStart(Tail(s)) ELSE s

RECURSIVE TrimEnd(_)
TrimEnd(s) ==
  IF s # <<>> /\ IsSpace(s[Len(s)]) THEN TrimEnd(SubSeq(s, 1, Len(s) - 1)) ELSE s

\* String.prototype.trim
Trim(s) == TrimEnd(TrimStart(s))

\* String.prototype.includes
Includes(s, p) ==
  \E i \in 1..(Len(s) - Len(p) + 1) : SubSeq(s, i, i + Len(p) - 1) = p

\* Number(digits) for a run of decimal digits
RECURSIVE DigitsToNumber(_)
DigitsToNumber(ds) ==
  IF ds = <<>> THEN 0
  ELSE 10 * DigitsToNumber(SubSeq(ds, 1, Len(ds) - 1)) + DigitVal(ds[Len(ds)])

(***************************************************************************)
(* A small matcher for the regular expressions of SRID_PATTERNS.  A        *)
(* pattern is a sequence of items: a literal character, "SEP" for the      *)
(* optional class [_\s]? and "ANY" for .* (which does not cross a newline).*)
(***************************************************************************)
IsSep(c) == c = "_" \/ IsSpace(c)

RECURSIVE MatchAt(_, _, _, _)
MatchAt(pat, j, s, i) ==
  IF j > Len(pat) THEN TRUE
  ELSE IF pat[j] = "SEP"
       THEN \/ (i <= Len(s) /\ IsSep(s[i]) /\ MatchAt(pat, j + 1, s, i + 1))
            \/ MatchAt(pat, j + 1, s, i)
  ELSE IF pat[j] = "ANY"
       THEN \E k \in i..(Len(s) + 1) :
              /\ \A m \in i..(k - 1) : s[m] \notin {"\n", "\r"}
              /\ MatchAt(pat, j + 1, s, k)
  ELSE i <= Len(s) /\ s[i] = pat[j] /\ MatchAt(pat, j + 1, s, i + 1)

\* RegExp.prototype.test: the pattern matches somewhere in s
Test(pat, s) == \E i \in 1..(Len(s) + 1) : MatchAt(pat, 1, s, i)

(***************************************************************************)
(* Coordinate-system catalog and detection (src/src/viewer/utils/srid.ts)  *)
(***************************************************************************)
\* `undefined`, as a text no archive text can equal
Undefined == <<"undefined">>

\* SRID_OPTIONS: code and proj4 definition; a definition string is kept
\* whole, as a one-element text
SRID_OPTIONS ==
  << [code |-> 4326, proj4 |-> <<"+proj=longlat +datum=WGS84 +no_defs +type=crs">>],
     [code |-> 3857, proj4 |-> <<"+proj=merc +lon_0=0 +k=1 +x_0=0 +y_0=0 +datum=WGS84 +units=m +no_defs +type=crs">>],
     [code |-> 5179, proj4 |-> <<"+proj=tmerc +lat_0=38 +lon_0=127 +k=1 +x_0=200000 +y_0=600000 +ellps=GRS80 +units=m +no_defs +type=crs">>],
     [code |-> 5186, proj4 |-> <<"+proj=tmerc +lat_0=38 +lon_0=127 +k=1 +x_0=200000 +y_0=500000 +ellps=GRS80 +units=m +no_defs +type=crs">>] >>

\* SRID_BY_CODE.has(code)
SRID_BY_CODE_has(code) == \E i \in 1..Len(SRID_OPTIONS) : SRID_OPTIONS[i].code = code

\* the codes the SRID modal and the map's SRID panel offer
SridCodes == {SRID_OPTIONS[i].code : i \in 1..Len(SRID_OPTIONS)}

\* SRID_PATTERNS; Object.entries enumerates integer keys in ascending order
SRID_PATTERNS ==
  << [code |-> 3857, patterns |->
        << <<"3","8","5","7">>,
           <<"p","s","e","u","d","o","SEP","m","e","r","c","a","t","o","r">>,
           <<"m","e","r","c","a","t","o","r","_","a","u","x","i","l","i","a","r","y",
             "_","s","p","h","e","r","e">> >>],
     [code |-> 4326, patterns |->
        << <<"4","3","2","6">>,
           <<"w","g","s","SEP","8","4">>,
           <<"g","c","s","_","w","g","s">> >>],
     [code |-> 5179, patterns |->
        << <<"5","1","7","9">>,
           <<"k","o","r","e","a","SEP","2","0","0","0","ANY",
             "c","e","n","t","r","a","l","SEP","b","e","l","t">>,
           <<"t","m","_","m","i","d">> >>],
     [code |-> 5186, patterns |->
        << <<"5","1","8","6">>,
           <<"c","e","n","t","r","a","l","SEP","b","e","l","t","SEP","2","0","1","0">>,
           <<"k","o","r","e","a","SEP","e","a","s","t","SEP","s","e","a">> >>] >>

RECURSIVE SkipSpaces(_, _)
SkipSpaces(s, i) ==
  IF i <= Len(s) /\ IsSpace(s[i]) THEN SkipSpaces(s, i + 1) ELSE i

IsQuote(c) == c \in {"\"", "'"}

SkipQuote(s, i) == IF i <= Len(s) /\ IsQuote(s[i]) THEN i + 1 ELSE i

\* position of the captured (\d{4}) when /epsg["']?\s*,\s*["']?(\d{4})["']?/i
\* matches at position i of s, else 0
EpsgCaptureAt(s, i) ==
  IF i + 3 > Len(s) \/ ToLowerCase(SubSeq(s, i, i + 3)) # <<"e","p","s","g">> THEN 0
  ELSE LET comma == SkipSpaces(s, SkipQuote(s, i + 4))
       IN  IF comma > Len(s) \/ s[comma] # "," THEN 0
           ELSE LET d == SkipQuote(s, SkipSpaces(s, comma + 1))
                IN  IF d + 3 <= Len(s) /\ \A k \in d..(d + 3) : IsDigit(s[k])
                    THEN d ELSE 0

\* prjText.match(...): the leftmost match decides; its captured code, else 0
EpsgMatch(s) ==
  IF \E i \in 1..Len(s) : EpsgCaptureAt(s, i) # 0
  THEN LET i == CHOOSE i \in 1..Len(s) :
                  /\ EpsgCaptureAt(s, i) # 0
                  /\ \A k \in 1..(i - 1) : EpsgCaptureAt(s, k) = 0
           d == EpsgCaptureAt(s, i)
       IN  DigitsToNumber(SubSeq(s, d, d + 3))
  ELSE 0

PatternHit(entry, normalized) ==
  \E k \in 1..Len(entry.patterns) : Test(entry.patterns[k], normalized)

\* a detection that consults the pattern table before the authority fragment
detectSridFromPrj_PatternsFirst(prjText) ==
  LET normalized == ToLowerCase(prjText)
      code == EpsgMatch(prjText)
  IN  IF \E e \in 1..Len(SRID_PATTERNS) : PatternHit(SRID_PATTERNS[e], normalized)
      THEN SRID_PATTERNS[CHOOSE e \in 1..Len(SRID_PATTERNS) :
               /\ PatternHit(SRID_PATTERNS[e], normalized)
               /\ \A f \in 1..(e - 1) : ~PatternHit(SRID_PATTERNS[f], normalized)].code
      ELSE IF code # 0 /\ SRID_BY_CODE_has(code) THEN code
      ELSE 0

\* detectSridFromPrj; 0 stands for undefined
detectSridFromPrj(prjText) ==
  LET normalized == ToLowerCase(prjText)
      code == EpsgMatch(prjText)
  IN  IF code # 0 /\ SRID_BY_CODE_has(code) THEN code
      ELSE IF \E e \in 1..Len(SRID_PATTERNS) : PatternHit(SRID_PATTERNS[e], normalized)
           THEN SRID_PATTERNS[CHOOSE e \in 1..Len(SRID_PATTERNS) :
                    /\ PatternHit(SRID_PATTERNS[e], normalized)
                    /\ \A f \in 1..(e - 1) : ~PatternHit(SRID_PATTERNS[f], normalized)].code
      ELSE IF /\ Includes(normalized, <<"t","r","a","n","s","v","e","r","s","e","_",
                                        "m","e","r","c","a","t","o","r">>)
              /\ Includes(normalized, <<"k","o","r","e","a">>)
           THEN 5179
      ELSE 0

(***************************************************************************)
(* Encoding labels                                                         *)
(***************************************************************************)
EncodingOptions == {"utf-8", "euc-kr", "cp949"}

\* parseEncodingLabel (App.vue); "undefined" when the label is not recognized
parseEncodingLabel(label) ==
  LET normalized == ToLowerCase(Trim(label))
  IN  IF \/ Includes(normalized, <<"u","t","f","-","8">>)
         \/ Includes(normalized, <<"u","t","f","8">>)
      THEN "utf-8"
      ELSE IF \/ Includes(normalized, <<"e","u","c","-","k","r">>)
              \/ Includes(normalized, <<"e","u","c","k","r">>)
              \/ Includes(normalized, <<"k","s","c">>)
              \/ Includes(normalized, <<"5","6","0","1">>)
      THEN "euc-kr"
      ELSE IF \/ Includes(normalized, <<"9","4","9">>)
              \/ Includes(normalized, <<"m","s","9","4","9">>)
              \/ Includes(normalized, <<"u","h","c">>)
      THEN "cp949"
      ELSE "undefined"

\* mapEncoding (worker): the label for the request's encoding choice, as a text
mapEncoding(encoding) ==
  IF encoding = "euc-kr" THEN <<"e","u","c","-","k","r">>
  ELSE IF encoding = "cp949" THEN <<"c","p","9","4","9">>
  ELSE <<"u","t","f","-","8">>

\* sridToProj4 (worker)
sridToProj4(srid) ==
  IF srid = 0 THEN Undefined
  ELSE IF \E i \in 1..Len(SRID_OPTIONS) : SRID_OPTIONS[i].code = srid
       THEN SRID_OPTIONS[CHOOSE i \in 1..Len(SRID_OPTIONS) : SRID_OPTIONS[i].code = srid].proj4
       ELSE Undefined

(***************************************************************************)
(* Archive entries.  An entry of the archive (but-unzip's iter) is         *)
(*   [filename, text, n, ok, nulls]                                        *)
(* text: the decoded content of a text member (.prj, .cpg);                *)
(* n, ok: record count of a binary member and whether shpjs decodes it;    *)
(* nulls: a .shp that holds a null-shape record.                           *)
(***************************************************************************)
\* a path whose backslashes stay as they are
NormalizeSlashes_Kept(s) == s

\* entry.filename.replace(/\\/g, "/")
NormalizeSlashes(s) == [i \in 1..Len(s) |-> IF s[i] = "\\" THEN "/" ELSE s[i]]

\* last position of character c in s, 0 if none
LastIndexOf(s, c) ==
  IF \E i \in 1..Len(s) : s[i] = c
  THEN CHOOSE i \in 1..Len(s) : s[i] = c /\ \A k \in (i + 1)..Len(s) : s[k] # c
  ELSE 0

\* normalized.split("/").pop()
LeafName(filename) ==
  LET normalized == NormalizeSlashes(filename)
  IN  SubSeq(normalized, LastIndexOf(normalized, "/") + 1, Len(normalized))

WorkerExtensions ==
  { <<"s","h","p">>, <<"d","b","f">>, <<"s","h","x">>, <<"p","r","j">>, <<"c","p","g">> }

InspectExtensions ==
  WorkerExtensions \cup { <<"q","i","x">>, <<"s","b","n">>, <<"s","b","x">> }

\* name.match(/^(.+)\.(ext|...)$/i): [ok, base, ext] with ext lower-cased
MatchLeaf(name, extensions) ==
  LET dot  == LastIndexOf(name, ".")
      base == SubSeq(name, 1, dot - 1)
      ext  == ToLowerCase(SubSeq(name, dot + 1, Len(name)))
  IN  IF /\ name # <<>>
         /\ dot > 1
         /\ ext \in extensions
         /\ \A i \in 1..Len(base) : base[i] \notin {"\n", "\r"}
      THEN [ok |-> TRUE, base |-> base, ext |-> ext]
      ELSE [ok |-> FALSE, base |-> <<>>, ext |-> <<>>]

\* position of the layer named base in a sequence of layers, 0 if none
LayerIndex(files, base) ==
  IF \E i \in 1..Len(files) : files[i].fileName = base
  THEN CHOOSE i \in 1..Len(files) : files[i].fileName = base
  ELSE 0

\* files[baseName] = { fileName: baseName }
NewLayerEntry(base) ==
  [fileName |-> base,
   hasShp |-> FALSE, shpN |-> 0, shpOk |-> TRUE, shpNulls |-> FALSE,
   hasDbf |-> FALSE, dbfN |-> 0, dbfOk |-> TRUE,
   prj |-> Undefined, cpg |-> Undefined]

\* the switch of collectEntries: every matching entry assigns its field
StoreEntry(layer, ext, entry) ==
  IF ext = <<"s","h","p">>
  THEN [layer EXCEPT !.hasShp = TRUE, !.shpN = entry.n, !.shpOk = entry.ok,
                     !.shpNulls = entry.nulls]
  ELSE IF ext = <<"d","b","f">>
  THEN [layer EXCEPT !.hasDbf = TRUE, !.dbfN = entry.n, !.dbfOk = entry.ok]
  ELSE IF ext = <<"p","r","j">>
  THEN [layer EXCEPT !.prj = Trim(entry.text)]
  ELSE IF ext = <<"c","p","g">>
  THEN [layer EXCEPT !.cpg = Trim(entry.text)]
  ELSE layer

\* one iteration of the loop of collectEntries; files: the layers in
\* creation order
CollectEntry(files, entry) ==
  LET m  == MatchLeaf(LeafName(entry.filename), WorkerExtensions)
      at == LayerIndex(files, m.base)
  IN  IF ~m.ok THEN files
      ELSE IF at = 0
           THEN Append(files, StoreEntry(NewLayerEntry(m.base), m.ext, entry))
           ELSE [files EXCEPT ![at] = StoreEntry(files[at], m.ext, entry)]

\* collectEntries after the first k entries
RECURSIVE CollectUpTo(_, _)
CollectUpTo(entries, k) ==
  IF k = 0 THEN <<>>
  ELSE CHOOSE next \in {CollectEntry(files, entries[k]) :
                          files \in {CollectUpTo(entries, k - 1)}} : TRUE

\* a property key that JavaScript treats as an array index (enumerated first,
\* in ascending order); keys of more than 9 digits are not among the model's names
IsArrayIndex(name) ==
  /\ name # <<>>
  /\ Len(name) <= 9
  /\ \A i \in 1..Len(name) : IsDigit(name[i])
  /\ (Len(name) = 1 \/ name[1] # "0")

IndexKey(layer) == DigitsToNumber(layer.fileName)

\* the layers at the positions in idx, in ascending order of their index key
RECURSIVE SortedByIndexKey(_, _)
SortedByIndexKey(files, idx) ==
  IF idx = {} THEN <<>>
  ELSE LET i == CHOOSE i \in idx : \A k \in idx : IndexKey(files[i]) <= IndexKey(files[k])
       IN  <<files[i]>> \o SortedByIndexKey(files, idx \ {i})

IsIndexLayer(layer) == IsArrayIndex(layer.fileName)

IsNamedLayer(layer) == ~IsArrayIndex(layer.fileName)

\* Object.values(entries)
ObjectValues(files) ==
  SortedByIndexKey(files, {i \in 1..Len(files) : IsIndexLayer(files[i])})
    \o SelectSeq(files, IsNamedLayer)

\* collectEntries (worker)
collectEntries(entries) == CollectUpTo(entries, Len(entries))

(***************************************************************************)
(* inspectZipEntries (App.vue)                                             *)
(***************************************************************************)
NewLayerStatus(name) ==
  [name |-> name, hasShp |-> FALSE, hasDbf |-> FALSE, hasShx |-> FALSE,
   hasPrj |-> FALSE, hasCpg |-> FALSE]

\* mark(layerName, ext)
Mark(status, ext) ==
  IF ext = <<"s","h","p">> THEN [status EXCEPT !.hasShp = TRUE]
  ELSE IF ext = <<"d","b","f">> THEN [status EXCEPT !.hasDbf = TRUE]
  ELSE IF ext = <<"s","h","x">> THEN [status EXCEPT !.hasShx = TRUE]
  ELSE IF ext = <<"p","r","j">> THEN [status EXCEPT !.hasPrj = TRUE]
  ELSE IF ext = <<"c","p","g">> THEN [status EXCEPT !.hasCpg = TRUE]
  ELSE status

StatusIndex(layers, name) ==
  IF \E i \in 1..Len(layers) : layers[i].name = name
  THEN CHOOSE i \in 1..Len(layers) : layers[i].name = name
  ELSE 0

\* readEntryAsText
readEntryAsText(entry) == Trim(entry.text)

\* one iteration of the loop of inspectZipEntries
InspectEntry(acc, entry) ==
  LET m   == MatchLeaf(LeafName(entry.filename), InspectExtensions)
      at  == StatusIndex(acc.layers, m.base)
      marked ==
        IF at = 0 THEN Append(acc.layers, Mark(NewLayerStatus(m.base), m.ext))
        ELSE [acc.layers EXCEPT ![at] = Mark(acc.layers[at], m.ext)]
      isCpg == m.ext = <<"c","p","g">>
      isPrj == m.ext = <<"p","r","j">>
      readPrj == isPrj /\ acc.prjText \in {Undefined, <<>>}
  IN  IF ~m.ok THEN acc
      ELSE [layers |-> marked,
            hasCpg |-> acc.hasCpg \/ isCpg,
            hasPrj |-> acc.hasPrj \/ isPrj,
            detectedEncoding |->
              IF isCpg /\ acc.detectedEncoding = "undefined"
              THEN parseEncodingLabel(readEntryAsText(entry))
              ELSE acc.detectedEncoding,
            detectedSridCode |->
              IF readPrj THEN detectSridFromPrj(readEntryAsText(entry))
              ELSE acc.detectedSridCode,
            prjText |->
              IF readPrj THEN readEntryAsText(entry) ELSE acc.prjText]

\* the loop of inspectZipEntries after the first k entries
RECURSIVE InspectUpTo(_, _)
InspectUpTo(entries, k) ==
  IF k = 0
  THEN [layers |-> <<>>, hasCpg |-> FALSE, hasPrj |-> FALSE,
        detectedEncoding |-> "undefined", detectedSridCode |-> 0,
        prjText |-> Undefined]
  ELSE CHOOSE next \in {InspectEntry(acc, entries[k]) :
                          acc \in {InspectUpTo(entries, k - 1)}} : TRUE

LayerIsValid(status) == status.hasShp /\ status.hasDbf /\ status.hasShx

\* inspectZipEntries
inspectZipEntries(entries) ==
  LET acc == InspectUpTo(entries, Len(entries))
  IN  [layers |-> acc.layers,
       hasValidLayer |-> \E i \in 1..Len(acc.layers) : LayerIsValid(acc.layers[i]),
       hasCpg |-> acc.hasCpg,
       hasPrj |-> acc.hasPrj,
       detectedEncoding |-> acc.detectedEncoding,
       detectedSridCode |-> acc.detectedSridCode,
       prjText |-> acc.prjText]

(***************************************************************************)
(* parseArchive (worker)                                                   *)
(***************************************************************************)
\* clampPercent(num / den): Math.min(99, Math.max(1, Math.round(value)));
\* Math.round rounds halves up
clampPercent(num, den) ==
  LET rounded == (2 * num + den) \div (2 * den)
      atLeast == IF rounded < 1 THEN 1 ELSE rounded
  IN  IF atLeast > 99 THEN 99 ELSE atLeast

\* createTransformer: the definition the converter is built from, or
\* Undefined for `null` (no transformer)
createTransformer(srid) == sridToProj4(srid)

\* a worker that prefers the layer's own .prj
PrjTextFor_FileFirst(projOverride, layer) ==
  IF layer.prj # Undefined THEN layer.prj ELSE projOverride

\* prjText = projOverride ?? layer.prj
PrjTextFor(projOverride, layer) ==
  IF projOverride # Undefined THEN projOverride ELSE layer.prj

\* the label encoded into cpgBuffer:
\*   encodingLabel = layer.cpg?.trim() || mapEncoding(encoding)
\*   cpgBuffer = layer.cpg ? encode(layer.cpg) : encode(encodingLabel)
CpgLabelFor(layer, encoding) ==
  IF layer.cpg # Undefined /\ layer.cpg # <<>> THEN layer.cpg
  ELSE mapEncoding(encoding)

\* layers = Object.values(entries).filter((layer) => layer.shp)
LayerHasShp(layer) == layer.hasShp

LayersToParse(entries) == SelectSeq(ObjectValues(collectEntries(entries)), LayerHasShp)

\* one iteration of the layer loop: what is handed to parseShp / parseDbf,
\* the collection that combine() and reprojectCollection produce, and whether
\* the shpjs decoders throw
DecodeLayer(layer, encoding, srid) ==
  [fileName  |-> layer.fileName,
   prj       |-> layer.prj,
   cpg       |-> layer.cpg,
   hasDbf    |-> layer.hasDbf,
   prjText   |-> PrjTextFor(sridToProj4(srid), layer),
   cpgLabel  |-> IF layer.hasDbf THEN CpgLabelFor(layer, encoding) ELSE Undefined,
   transform |-> createTransformer(srid),
   features  |-> layer.shpN,
   nullGeometry |-> layer.shpNulls,
   rows      |-> IF layer.hasDbf THEN layer.dbfN ELSE 0,
   throws    |-> ~layer.shpOk \/ (layer.hasDbf /\ ~layer.dbfOk)]

\* number of layers decoded before the loop ends: all, or up to and including
\* the first one on which a decoder throws
RECURSIVE DecodedCount(_, _)
DecodedCount(decoded, from) ==
  IF from > Len(decoded) THEN 0
  ELSE IF decoded[from].throws THEN 1
  ELSE 1 + DecodedCount(decoded, from + 1)

\* reportProgress(label, percent): the label is kept as a stage tag and the
\* 1-based layer number it names (0 outside the layer loop)
Progress(label, layer, num, den) ==
  [label |-> label, layer |-> layer, percent |-> clampPercent(num, den)]

\* a layer loop that reports the end of a layer before its start
RECURSIVE LayerProgress_Swapped(_, _, _)
LayerProgress_Swapped(total, count, failed) ==
  IF count = 0 THEN <<>>
  ELSE LayerProgress_Swapped(total, count - 1, FALSE)
         \o << Progress("layer-start", count, 20 * total + 65 * count, total) >>
         \o (IF failed THEN <<>>
             ELSE << Progress("layer-done", count, 20 * total + 65 * (count - 1), total) >>)

\* the reports of the layer loop for the layers 1..count of total; the
\* last of these layers throws when `failed`
RECURSIVE LayerProgress(_, _, _)
LayerProgress(total, count, failed) ==
  IF count = 0 THEN <<>>
  ELSE LayerProgress(total, count - 1, FALSE)
         \o << Progress("layer-start", count, 20 * total + 65 * (count - 1), total) >>
         \o (IF failed THEN <<>>
             ELSE << Progress("layer-done", count, 20 * total + 65 * count, total) >>)

\* parseArchive after collectEntries has returned: the progress reported,
\* the layers decoded, and whether it returns the collections or throws
parseArchive(entries, encoding, srid) ==
  LET layers  == LayersToParse(entries)
      decoded == [i \in 1..Len(layers) |-> DecodeLayer(layers[i], encoding, srid)]
      count   == DecodedCount(decoded, 1)
      failed  == count > 0 /\ decoded[count].throws
      first   == << Progress("layers", 0, 12, 1) >>
  IN  IF Len(layers) = 0
      THEN [progress |-> first, decoded |-> <<>>,
            status |-> "error", collections |-> <<>>]
      ELSE IF failed
      THEN [progress |-> first \o LayerProgress(Len(layers), count, TRUE),
            decoded |-> SubSeq(decoded, 1, count),
            status |-> "error", collections |-> <<>>]
      ELSE [progress |-> first \o LayerProgress(Len(layers), count, FALSE)
                           \o << Progress("geojson", 0, 90, 1) >>,
            decoded |-> decoded,
            status |-> "success", collections |-> decoded]

\* normalizeCollection (worker): result[0] of an array, else the result
WorkerNormalizeCollection(collections) == collections[1]

(***************************************************************************)
(* The files a user drops                                                  *)
(***************************************************************************)
Named(base, ext) == base \o <<".">> \o ext

\* a binary member: n records, decodable or not, no null-shape records
Bin(filename, n, ok) ==
  [filename |-> filename, text |-> <<>>, n |-> n, ok |-> ok, nulls |-> FALSE]

\* a .shp that holds a null-shape record (its feature has geometry null)
BinWithNull(filename, n) ==
  [filename |-> filename, text |-> <<>>, n |-> n, ok |-> TRUE, nulls |-> TRUE]

\* a text member
Txt(filename, text) ==
  [filename |-> filename, text |-> text, n |-> 0, ok |-> TRUE, nulls |-> FALSE]

Shp == <<"s","h","p">>
Dbf == <<"d","b","f">>
Shx == <<"s","h","x">>
Prj == <<"p","r","j">>
Cpg == <<"c","p","g">>

ZipName == <<"d",".","z","i","p">>

PrjEpsg5186 == <<"[","\"","E","P","S","G","\"",",","\"","5","1","8","6","\"","]">>
PrjUnknown  == <<"L","O","C","A","L","_","C","S">>
CpgUtf8     == <<"U","T","F","-","8","\n">>
CpgMs949    == <<"M","S","9","4","9">>
CpgLatin1   == <<"l","a","t","i","n","1">>

LARGE_FILE_BYTES == 100 * 1024 * 1024
LARGE_FEATURE_THRESHOLD == 100000
QUICK_SAMPLE_TARGET == 25000

SmallBytes == 4 * 1024

\* one complete layer with .prj (EPSG 5186) and .cpg (UTF-8); it has as many
\* features as LARGE_FEATURE_THRESHOLD
PlainEntries ==
  << Bin(Named(<<"a">>, Shp), LARGE_FEATURE_THRESHOLD, TRUE),
     Bin(Named(<<"a">>, Dbf), LARGE_FEATURE_THRESHOLD, TRUE),
     Bin(Named(<<"a">>, Shx), 0, TRUE), Txt(Named(<<"a">>, Prj), PrjEpsg5186),
     Txt(Named(<<"a">>, Cpg), CpgUtf8) >>

\* one complete layer without .prj, .cpg "MS949"; its .dbf has one row less
\* than its .shp has records
NoPrjEntries ==
  << Bin(Named(<<"b">>, Shp), 2, TRUE), Bin(Named(<<"b">>, Dbf), 1, TRUE),
     Bin(Named(<<"b">>, Shx), 0, TRUE), Txt(Named(<<"b">>, Cpg), CpgMs949) >>

\* the only layer lacks its .shx
NoShxEntries ==
  << Bin(Named(<<"c">>, Shp), 2, TRUE), Bin(Named(<<"c">>, Dbf), 2, TRUE),
     Txt(Named(<<"c">>, Prj), PrjEpsg5186) >>

\* a complete layer without .prj and .cpg, one feature short of
\* LARGE_FEATURE_THRESHOLD, then a complete layer with an unrecognized .prj
\* and an unrecognized .cpg
MixedEntries ==
  << Bin(Named(<<"a">>, Shp), LARGE_FEATURE_THRESHOLD - 1, TRUE),
     Bin(Named(<<"a">>, Dbf), LARGE_FEATURE_THRESHOLD - 1, TRUE),
     Bin(Named(<<"a">>, Shx), 0, TRUE),
     Bin(Named(<<"b">>, Shp), 2, TRUE), Bin(Named(<<"b">>, Dbf), 2, TRUE),
     Bin(Named(<<"b">>, Shx), 0, TRUE), Txt(Named(<<"b">>, Prj), PrjUnknown),
     Txt(Named(<<"b">>, Cpg), CpgLatin1) >>

\* a complete layer whose .dbf shpjs cannot decode
CorruptEntries ==
  << Bin(Named(<<"a">>, Shp), 2, TRUE), Bin(Named(<<"a">>, Dbf), 2, FALSE),
     Bin(Named(<<"a">>, Shx), 0, TRUE), Txt(Named(<<"a">>, Prj), PrjEpsg5186) >>

\* a complete layer whose first record is a null shape
NullShapeEntries ==
  << BinWithNull(Named(<<"n">>, Shp), 2), Bin(Named(<<"n">>, Dbf), 2, TRUE),
     Bin(Named(<<"n">>, Shx), 0, TRUE), Txt(Named(<<"n">>, Prj), PrjEpsg5186) >>

File(name, size, entries) == [name |-> name, size |-> size, entries |-> entries]

\* the files of the viewer specification
Files ==
  << File(ZipName, LARGE_FILE_BYTES, PlainEntries),
     File(ZipName, SmallBytes, NoPrjEntries),
     File(ZipName, LARGE_FILE_BYTES, NoShxEntries),
     File(ZipName, LARGE_FILE_BYTES - 1, MixedEntries),
     File(ZipName, SmallBytes, CorruptEntries),
     File(ZipName, LARGE_FILE_BYTES, NullShapeEntries) >>

(***************************************************************************)
(* State                                                                   *)
(***************************************************************************)
VARIABLES
  app,        \* the refs and module-level variables of App.vue, by name
  pending,    \* processFile calls suspended at an await: [file, at]
  toWorker,   \* parse requests posted to the worker, not yet received
  jobs,       \* requests the worker has received and is still working on
  toViewer,   \* messages posted by the worker, not yet handled by the viewer
  posted,     \* history: every message the worker has posted, in order
  decodeLog,  \* history: every layer the worker has decoded
  dropCount,  \* history: how many files have been dropped or selected
  lab         \* the bench of the pure functions: [kind, input, output, done]

vars == <<app, pending, toWorker, jobs, toViewer, posted, decodeLog, dropCount, lab>>

\* bounds of the model
MaxRunId == 2
MaxPending == 1
MaxDrops == 2

\* the bench is not in use in the viewer specification
NoLab == [kind |-> "none"]

\* `null` of a ref that holds an object
NullRec == [null |-> TRUE]

NoLargeDataset ==
  [fileBytes |-> 0, featureCount |-> 0, isLargeFile |-> FALSE, isLargeFeature |-> FALSE]

NoParseStats == [total |-> 0, displayed |-> 0]

\* the refs after setup.  srid and sourceBuffer hold 0 for null,
\* selectedFeatureId holds -1 for null; a feature id is the feature's index
\* in the decoded layer ("feature-<index>"); sourceBuffer holds the index of
\* the dropped file in Files.  `out` collects the requests posted to the
\* worker by the handler that is running.
InitialApp ==
  [isLoading |-> FALSE, errorMessage |-> "", result |-> NullRec,
   zipInspection |-> NullRec, encoding |-> "utf-8", srid |-> 0,
   sridMode |-> "file", sourceBuffer |-> 0, currentFileName |-> <<>>,
   hasParsedOnce |-> FALSE, currentCollection |-> NullRec,
   sridModalVisible |-> FALSE, selectedFeatureId |-> -1, parseMode |-> "full",
   parseProgress |-> NullRec, largeDataset |-> NoLargeDataset,
   largeModalVisible |-> FALSE, largeModalReason |-> "null",
   hasAcknowledgedLargeFile |-> FALSE, hasAcknowledgedLargeFeature |-> FALSE,
   parseStats |-> NoParseStats,
   parseRunId |-> 0, workerJobId |-> 0, workerResolvers |-> {},
   out |-> <<>>]

(***************************************************************************)
(* App.vue: functions and handlers, as functions of the refs               *)
(***************************************************************************)
\* zipInspection.value?.hasPrj
InspectionHasPrj(a) == a.zipInspection # NullRec /\ a.zipInspection.hasPrj

\* a runParse that always sends the selected code
ShouldOverride_Always(a) == TRUE

\* runParse, lines 781-783
ShouldOverride(a) == a.sridMode = "manual" \/ ~InspectionHasPrj(a)

OverrideCode(a) == IF ShouldOverride(a) THEN a.srid ELSE 0

\* runParse up to its await of parseWithWorker (which posts the request)
RunParse(a, buffer, manageLoading) ==
  LET jobId == a.parseRunId + 1
      id    == a.workerJobId + 1
  IN  [a EXCEPT
        !.parseRunId = jobId,
        !.isLoading = IF manageLoading THEN TRUE ELSE @,
        !.workerJobId = id,
        !.workerResolvers = @ \cup
           {[id |-> id, jobId |-> jobId, manageLoading |-> manageLoading,
             previousSelection |-> a.selectedFeatureId]},
        !.out = Append(@, [id |-> id, buffer |-> buffer,
                           encoding |-> a.encoding, srid |-> OverrideCode(a)])]

\* triggerReparse
TriggerReparse(a) ==
  IF a.sourceBuffer = 0 THEN a ELSE RunParse(a, a.sourceBuffer, TRUE)

\* openLargeModal
OpenLargeModal(a, reason) ==
  [a EXCEPT !.largeModalReason = reason, !.largeModalVisible = TRUE]

\* resetViewer
ResetViewer(a) ==
  [InitialApp EXCEPT
     !.parseRunId = a.parseRunId + 1,
     !.workerJobId = a.workerJobId,
     !.workerResolvers = a.workerResolvers,
     !.out = a.out]

\* /\.zip$/i.test(file.name)
IsZipName(name) ==
  Len(name) >= 4 /\ ToLowerCase(SubSeq(name, Len(name) - 3, Len(name))) = <<".","z","i","p">>

\* what the pure functions return on the files of the specification, each
\* computed once
NamedZip == [f \in 1..Len(Files) |-> IsZipName(Files[f].name)] @@ <<>>

Inspected == [f \in 1..Len(Files) |-> inspectZipEntries(Files[f].entries)] @@ <<>>

Parsed ==
  [f \in 1..Len(Files), encoding \in EncodingOptions, srid \in {0} \cup SridCodes |->
     parseArchive(Files[f].entries, encoding, srid)] @@ <<>>


\* processFile up to `await file.arrayBuffer()`
ProcessFileBegin(a, f) ==
  IF ~NamedZip[f]
  THEN [a EXCEPT !.errorMessage = "not-zip"]
  ELSE [a EXCEPT
         !.isLoading = TRUE, !.errorMessage = "", !.result = NullRec,
         !.zipInspection = NullRec, !.srid = 0, !.sridMode = "file",
         !.currentFileName = Files[f].name, !.sourceBuffer = 0,
         !.hasParsedOnce = FALSE, !.selectedFeatureId = -1,
         !.parseMode = "full", !.parseProgress = NullRec,
         !.parseStats = NoParseStats,
         !.largeDataset = [fileBytes |-> Files[f].size, featureCount |-> 0,
                           isLargeFile |-> Files[f].size >= LARGE_FILE_BYTES,
                           isLargeFeature |-> FALSE],
         !.hasAcknowledgedLargeFile = ~(Files[f].size >= LARGE_FILE_BYTES),
         !.hasAcknowledgedLargeFeature = FALSE,
         !.largeModalVisible = FALSE, !.largeModalReason = "null"]

\* processFile from `sourceBuffer.value = buffer` to `await inspectZipEntries`
ProcessFileBuffer(a, f) == [a EXCEPT !.sourceBuffer = f]

\* the refs processFile assigns from the inspection
InspectionRefs(a, inspection) ==
  [a EXCEPT
     !.zipInspection = inspection,
     !.encoding = IF inspection.detectedEncoding # "undefined"
                  THEN inspection.detectedEncoding ELSE @,
     !.srid = inspection.detectedSridCode,
     !.sridMode = IF inspection.hasPrj THEN "file" ELSE "manual"]

\* processFile after inspectZipEntries has returned, with its finally block
\* when it returns without awaiting runParse
ApplyInspection(a, f, inspection) ==
  IF ~inspection.hasValidLayer
  THEN [InspectionRefs(a, inspection) EXCEPT
          !.errorMessage = "no-valid-layer", !.isLoading = FALSE]
  ELSE IF ~inspection.hasPrj /\ inspection.detectedSridCode = 0
  THEN [InspectionRefs(a, inspection) EXCEPT
          !.sridModalVisible = TRUE, !.isLoading = FALSE]
  ELSE IF a.largeDataset.isLargeFile /\ ~a.hasAcknowledgedLargeFile
  THEN [OpenLargeModal(InspectionRefs(a, inspection), "file") EXCEPT !.isLoading = FALSE]
  ELSE RunParse(InspectionRefs(a, inspection), f, FALSE)

ProcessFileInspected(a, f) == ApplyInspection(a, f, Inspected[f])

\* applyQuickPreview: stride and number of sampled features
QuickStride(n) ==
  IF n <= QUICK_SAMPLE_TARGET THEN 1
  ELSE IF n \div QUICK_SAMPLE_TARGET < 1 THEN 1 ELSE n \div QUICK_SAMPLE_TARGET

QuickCount(n) ==
  IF n <= QUICK_SAMPLE_TARGET THEN n
  ELSE LET kept == (n + QuickStride(n) - 1) \div QuickStride(n)
       IN  IF kept > QUICK_SAMPLE_TARGET THEN QUICK_SAMPLE_TARGET ELSE kept

\* the collection runParse shows: the decoded layer, the runParse that
\* produced it (jobId), and which of its features are kept (those at the
\* indices 0, stride, 2*stride, ... below displayed*stride)
FullCollection(jobId, layer) ==
  [jobId |-> jobId, layer |-> layer, total |-> layer.features,
   displayed |-> layer.features, stride |-> 1]

QuickCollection(jobId, layer) ==
  [jobId |-> jobId, layer |-> layer, total |-> layer.features,
   displayed |-> QuickCount(layer.features), stride |-> QuickStride(layer.features)]

\* a test that accepts every non-null id
hasFeatureId_Any(collection, id) == id # -1

\* hasFeatureId
hasFeatureId(collection, id) ==
  /\ id # -1
  /\ id >= 0 /\ id < collection.total
  /\ id % collection.stride = 0
  /\ id \div collection.stride < collection.displayed

\* summarizeCollection, as far as the viewer state machine reads it
Summary(a, collection) ==
  [fileName |-> IF a.currentFileName # <<>> THEN a.currentFileName
                ELSE IF a.zipInspection # NullRec /\ a.zipInspection.layers # <<>>
                THEN a.zipInspection.layers[1].name
                ELSE <<"file">>,
   featureCount |-> collection.displayed,
   jobId |-> collection.jobId]

\* a runParse that applies every outcome
IsStale_Applied(a, entry) == FALSE

\* `if (jobId !== parseRunId) return` of runParse, lines 791 and 848
IsStale(a, entry) == entry.jobId # a.parseRunId

\* the catch block of runParse
ApplyError(a) == [a EXCEPT !.errorMessage = "worker-error", !.result = NullRec]

\* a test that leaves the threshold itself out
IsLargeFeature_Above(total) == total > LARGE_FEATURE_THRESHOLD

\* runParse, line 798: isLargeFeature of totalFeatures
IsLargeFeature(total) == total >= LARGE_FEATURE_THRESHOLD

\* runParse from line 792 to the end of the try block; in quick mode
\* roundGeometry reads geometry.type and throws on a null geometry, after
\* largeDataset and parseStats have been assigned
ApplySuccess(a, entry, layer) ==
  LET total   == layer.features
      large   == [a.largeDataset EXCEPT !.featureCount = total,
                    !.isLargeFeature = IsLargeFeature(total)]
      working == IF a.parseMode = "quick" THEN QuickCollection(entry.jobId, layer)
                 ELSE FullCollection(entry.jobId, layer)
      counted == [a EXCEPT
                   !.largeDataset = large,
                   !.parseStats = [total |-> total, displayed |-> total]]
      shown   == [counted EXCEPT
                   !.parseStats = [total |-> total, displayed |-> working.displayed],
                   !.currentCollection = working,
                   !.result = Summary(a, working),
                   !.errorMessage = "",
                   !.selectedFeatureId =
                      IF hasFeatureId(working, entry.previousSelection)
                      THEN entry.previousSelection
                      ELSE IF working.displayed > 0 THEN 0 ELSE -1]
      asked   == IF /\ large.isLargeFeature
                    /\ a.parseMode = "full"
                    /\ ~a.hasAcknowledgedLargeFeature
                 THEN OpenLargeModal(shown, "feature") ELSE shown
  IN  IF a.parseMode = "quick" /\ layer.nullGeometry /\ total > 0
      THEN ApplyError(counted)
      ELSE [asked EXCEPT !.hasParsedOnce = TRUE]

\* runParse after parseWithWorker has settled with message msg, then the
\* finally block of processFile when processFile awaited this runParse
\* (it is the only caller that passes manageLoading: false)
RunParseSettled(a, entry, msg) ==
  LET done ==
        IF IsStale(a, entry) THEN a
        ELSE LET applied == IF msg.status = "success"
                            THEN ApplySuccess(a, entry, msg.collection)
                            ELSE ApplyError(a)
             IN  IF entry.manageLoading THEN [applied EXCEPT !.isLoading = FALSE]
                 ELSE applied
  IN  IF entry.manageLoading THEN done ELSE [done EXCEPT !.isLoading = FALSE]

\* parserWorker.addEventListener("message", ...)
HandleMessage(a, msg) ==
  IF msg.status = "progress"
  THEN [a EXCEPT !.parseProgress = [label |-> msg.label, percent |-> msg.percent]]
  ELSE IF ~\E e \in a.workerResolvers : e.id = msg.id THEN a
  ELSE LET entry == CHOOSE e \in a.workerResolvers : e.id = msg.id
       IN  RunParseSettled(
             [a EXCEPT !.workerResolvers = @ \ {entry}, !.parseProgress = NullRec],
             entry, msg)

\* toggleParseMode
ToggleParseMode(a, mode) ==
  IF a.parseMode = mode THEN a
  ELSE LET b == [a EXCEPT !.parseMode = mode]
       IN  IF b.sourceBuffer = 0 THEN b ELSE RunParse(b, b.sourceBuffer, TRUE)

\* handleLargeModalSelect
HandleLargeModalSelect(a, mode) ==
  LET reason == a.largeModalReason
      b == [a EXCEPT
             !.parseMode = mode,
             !.hasAcknowledgedLargeFile = IF reason = "file" THEN TRUE ELSE @,
             !.hasAcknowledgedLargeFeature =
                IF reason \in {"file", "feature"} THEN TRUE ELSE @,
             !.largeModalVisible = FALSE,
             !.largeModalReason = "null"]
  IN  IF b.sourceBuffer = 0 THEN b
      ELSE IF ~(reason = "file" \/ a.parseMode # mode) THEN b
      ELSE RunParse(b, b.sourceBuffer, TRUE)

\* closeLargeModal
CloseLargeModal(a) ==
  LET b == [a EXCEPT !.largeModalVisible = FALSE, !.largeModalReason = "null"]
  IN  IF a.largeModalReason = "file" /\ ~a.hasParsedOnce THEN ResetViewer(b) ELSE b

\* confirmSridSelection up to its await of runParse
ConfirmSridSelection(a) ==
  IF a.sourceBuffer = 0 \/ a.srid = 0
  THEN [a EXCEPT !.errorMessage = "select-srid-first"]
  ELSE RunParse([a EXCEPT !.sridMode = "manual", !.sridModalVisible = FALSE],
                a.sourceBuffer, TRUE)

\* handleSridUpdate
HandleSridUpdate(a, next) == [a EXCEPT !.srid = next, !.sridMode = "manual"]

\* resetToFileProjection
ResetToFileProjection(a) ==
  IF ~InspectionHasPrj(a) THEN a ELSE [a EXCEPT !.sridMode = "file"]

\* @change-encoding="encoding = $event"
ChangeEncoding(a, next) == [a EXCEPT !.encoding = next]

\* SridModal @update:selected="srid = $event"
SridModalUpdate(a, next) == [a EXCEPT !.srid = next]

\* handleGridSelection and handleFeatureFocusFromMap
SelectFeature(a, id) == [a EXCEPT !.selectedFeatureId = id]

(***************************************************************************)
(* The watchers, run in the order of their definition once the handler     *)
(* has reached an await or returned; `before` holds the refs as the        *)
(* previous flush left them.                                               *)
(***************************************************************************)
DetectedSridCode(a) ==
  IF a.zipInspection = NullRec THEN 0 ELSE a.zipInspection.detectedSridCode

\* watch(() => zipInspection.value?.detectedSridCode, ...)
WatchDetectedSrid(before, a) ==
  IF /\ DetectedSridCode(a) # DetectedSridCode(before)
     /\ DetectedSridCode(a) # 0
     /\ a.srid = 0
  THEN [a EXCEPT !.srid = DetectedSridCode(a)] ELSE a

\* watch(encoding, ...)
WatchEncoding(before, a) ==
  IF a.encoding # before.encoding /\ a.hasParsedOnce THEN TriggerReparse(a) ELSE a

\* watch(() => parseMode.value, ...)
WatchParseMode(before, a) ==
  IF a.parseMode # before.parseMode /\ a.parseMode = "quick"
  THEN [a EXCEPT !.hasAcknowledgedLargeFile = TRUE,
                 !.hasAcknowledgedLargeFeature = TRUE]
  ELSE a

\* watch(srid, ...)
WatchSrid(before, a) ==
  IF a.srid # before.srid /\ a.hasParsedOnce /\ ShouldOverride(a)
  THEN TriggerReparse(a) ELSE a

\* watch(sridMode, ...)
WatchSridMode(before, a) ==
  IF a.sridMode # before.sridMode /\ a.hasParsedOnce THEN TriggerReparse(a) ELSE a

FlushWatchers(before, a) ==
  WatchSridMode(before,
    WatchSrid(before,
      WatchParseMode(before,
        WatchEncoding(before,
          WatchDetectedSrid(before, a)))))

(***************************************************************************)
(* Actions of the viewer.  A handler runs to its first real suspension     *)
(* (a file read, the reply of the worker); the watchers it triggered run   *)
(* before any other event is handled.  A component's events exist only     *)
(* while its v-if condition holds.                                         *)
(***************************************************************************)
Init ==
  /\ app = InitialApp
  /\ pending = <<>>
  /\ toWorker = <<>>
  /\ jobs = {}
  /\ toViewer = <<>>
  /\ posted = <<>>
  /\ decodeLog = {}
  /\ dropCount = 0
  /\ lab = NoLab

WorkerIdle == UNCHANGED <<jobs, toViewer, posted, decodeLog>>

\* the handler has produced refs r: run the watchers, hand the posted
\* requests to the worker.  A handler that advances parseRunId runs only
\* while parseRunId is below MaxRunId.
Commit(r) ==
  LET flushed == FlushWatchers(app, r)
  IN  /\ flushed.parseRunId = app.parseRunId \/ app.parseRunId < MaxRunId
      /\ app' = [flushed EXCEPT !.out = <<>>]
      /\ toWorker' = toWorker \o flushed.out

hasFileLoaded == app.hasParsedOnce

isLargeDataset == app.largeDataset.isLargeFile \/ app.largeDataset.isLargeFeature

shouldShowLargeBanner == isLargeDataset \/ app.parseMode = "quick"

\* DropZone @drop-file / @select-file: processFile starts
DropFile(f) ==
  /\ ~hasFileLoaded /\ app.parseProgress = NullRec
  /\ Len(pending) < MaxPending
  /\ dropCount < MaxDrops /\ dropCount' = dropCount + 1
  /\ UNCHANGED lab
  /\ Commit(ProcessFileBegin(app, f))
  /\ pending' = IF NamedZip[f]
                THEN Append(pending, [file |-> f, at |-> "arrayBuffer"])
                ELSE pending
  /\ WorkerIdle

RemoveAt(seq, i) == SubSeq(seq, 1, i - 1) \o SubSeq(seq, i + 1, Len(seq))

\* file.arrayBuffer() has resolved
FileRead(i) ==
  /\ pending[i].at = "arrayBuffer"
  /\ Commit(ProcessFileBuffer(app, pending[i].file))
  /\ pending' = [pending EXCEPT ![i].at = "inspectZipEntries"]
  /\ UNCHANGED <<dropCount, lab>> /\ WorkerIdle

\* inspectZipEntries has resolved
FileInspected(i) ==
  /\ pending[i].at = "inspectZipEntries"
  /\ Commit(ProcessFileInspected(app, pending[i].file))
  /\ pending' = RemoveAt(pending, i)
  /\ UNCHANGED <<dropCount, lab>> /\ WorkerIdle

\* header button and SridModal @cancel
ClickReset ==
  /\ hasFileLoaded \/ app.sridModalVisible
  /\ Commit(ResetViewer(app))
  /\ UNCHANGED <<pending, dropCount, lab>> /\ WorkerIdle

\* LargeDatasetBanner @select-mode
ClickBannerMode(mode) ==
  /\ shouldShowLargeBanner
  /\ Commit(ToggleParseMode(app, mode))
  /\ UNCHANGED <<pending, dropCount, lab>> /\ WorkerIdle

\* LargeDatasetModal @select
ClickModalMode(mode) ==
  /\ app.largeModalVisible
  /\ Commit(HandleLargeModalSelect(app, mode))
  /\ UNCHANGED <<pending, dropCount, lab>> /\ WorkerIdle

\* LargeDatasetModal @close
ClickModalClose ==
  /\ app.largeModalVisible
  /\ Commit(CloseLargeModal(app))
  /\ UNCHANGED <<pending, dropCount, lab>> /\ WorkerIdle

\* SridModal @update:selected
PickSridInModal(code) ==
  /\ app.sridModalVisible
  /\ Commit(SridModalUpdate(app, code))
  /\ UNCHANGED <<pending, dropCount, lab>> /\ WorkerIdle

\* SridModal @confirm
ClickSridConfirm ==
  /\ app.sridModalVisible
  /\ Commit(ConfirmSridSelection(app))
  /\ UNCHANGED <<pending, dropCount, lab>> /\ WorkerIdle

\* MapPanel @update:srid
PickSridOnMap(code) ==
  /\ hasFileLoaded
  /\ Commit(HandleSridUpdate(app, code))
  /\ UNCHANGED <<pending, dropCount, lab>> /\ WorkerIdle

\* MapPanel @use-file-projection
ClickUseFileProjection ==
  /\ hasFileLoaded
  /\ Commit(ResetToFileProjection(app))
  /\ UNCHANGED <<pending, dropCount, lab>> /\ WorkerIdle

\* ResultPanel / DataGrid @change-encoding
PickEncoding(next) ==
  /\ app.result # NullRec
  /\ Commit(ChangeEncoding(app, next))
  /\ UNCHANGED <<pending, dropCount, lab>> /\ WorkerIdle

\* DataGrid @select: a row of the shown collection
ClickRow(id) ==
  /\ app.currentCollection # NullRec /\ app.result # NullRec
  /\ hasFeatureId(app.currentCollection, id)
  /\ Commit(SelectFeature(app, id))
  /\ UNCHANGED <<pending, dropCount, lab>> /\ WorkerIdle

\* the viewer handles the next message of the worker
ViewerMessage ==
  /\ toViewer # <<>>
  /\ Commit(HandleMessage(app, Head(toViewer)))
  /\ toViewer' = Tail(toViewer)
  /\ UNCHANGED <<pending, jobs, posted, decodeLog, dropCount, lab>>

(***************************************************************************)
(* Actions of the worker                                                   *)
(***************************************************************************)
ProgressMessage(id, p) ==
  [id |-> id, status |-> "progress", label |-> p.label, layer |-> p.layer,
   percent |-> p.percent, collection |-> NullRec]

SuccessMessage(id, collection) ==
  [id |-> id, status |-> "success", label |-> "", layer |-> 0, percent |-> 0,
   collection |-> collection]

ErrorMessage(id) ==
  [id |-> id, status |-> "error", label |-> "", layer |-> 0, percent |-> 0,
   collection |-> NullRec]

\* what `posted` keeps of a message
Logged(msg) == [id |-> msg.id, status |-> msg.status, label |-> msg.label,
                layer |-> msg.layer, percent |-> msg.percent]

\* the handler of the worker up to its await in collectEntries
WorkerBegin(request) ==
  << ProgressMessage(request.id, Progress("zip", 0, 5, 1)) >>

\* a handler that answers with the first collection it has, even when a
\* later decoder threw
WorkerEnd_PartialSuccess(request) ==
  LET r == Parsed[request.buffer, request.encoding, request.srid]
  IN  [k \in 1..Len(r.progress) |-> ProgressMessage(request.id, r.progress[k])]
        \o << IF Len(r.decoded) > 0
              THEN SuccessMessage(request.id, r.decoded[1])
              ELSE ErrorMessage(request.id) >>

\* the handler of the worker from there to its end
WorkerEnd(request) ==
  LET r == Parsed[request.buffer, request.encoding, request.srid]
  IN  [k \in 1..Len(r.progress) |-> ProgressMessage(request.id, r.progress[k])]
        \o << IF r.status = "success"
              THEN SuccessMessage(request.id, WorkerNormalizeCollection(r.collections))
              ELSE ErrorMessage(request.id) >>

Post(msgs) ==
  /\ toViewer' = toViewer \o msgs
  /\ posted' = posted \o [k \in 1..Len(msgs) |-> Logged(msgs[k])]

\* the worker receives a request
WorkerReceive ==
  /\ toWorker # <<>>
  /\ toWorker' = Tail(toWorker)
  /\ jobs' = jobs \cup {Head(toWorker)}
  /\ Post(WorkerBegin(Head(toWorker)))
  /\ UNCHANGED <<app, pending, decodeLog, dropCount, lab>>

\* the worker finishes a request; requests whose archive reads are
\* asynchronous may finish in any order
WorkerFinish(request) ==
  /\ request \in jobs
  /\ jobs' = jobs \ {request}
  /\ Post(WorkerEnd(request))
  /\ decodeLog' = decodeLog \cup
       LET r == Parsed[request.buffer, request.encoding, request.srid]
       IN  {[request |-> request, index |-> k, layer |-> r.decoded[k],
             delivered |-> r.status = "success" /\ k = 1] : k \in 1..Len(r.decoded)}
  /\ UNCHANGED <<app, pending, toWorker, dropCount, lab>>

\* what the user picks in the SRID controls, the encoding control and the grid
PickCodes == {4326, 5186}
PickEncodings == {"utf-8", "cp949"}
RowIds == {1}

Next ==
  \/ \E f \in 1..Len(Files) : DropFile(f)
  \/ \E i \in 1..Len(pending) : FileRead(i)
  \/ \E i \in 1..Len(pending) : FileInspected(i)
  \/ ClickReset
  \/ \E mode \in {"quick", "full"} : ClickBannerMode(mode)
  \/ \E mode \in {"quick", "full"} : ClickModalMode(mode)
  \/ ClickModalClose
  \/ \E code \in PickCodes : PickSridInModal(code)
  \/ ClickSridConfirm
  \/ \E code \in PickCodes : PickSridOnMap(code)
  \/ ClickUseFileProjection
  \/ \E next \in PickEncodings : PickEncoding(next)
  \/ \E id \in RowIds : ClickRow(id)
  \/ ViewerMessage
  \/ WorkerReceive
  \/ \E request \in jobs : WorkerFinish(request)

Spec == Init /\ [][Next]_vars

(***************************************************************************)
(* Feature collections in detail.  A JavaScript value that can be an id or *)
(* a property is [t, v]: t is "null" (null or undefined, which `??` and    *)
(* the test of line 600 treat alike), "num" or "str"; v is the text that   *)
(* String() yields for it.  A feature is [id, properties, geometry];       *)
(* properties is [present, OBJECTID, id, ID], present = FALSE for a        *)
(* feature without a properties object.                                    *)
(***************************************************************************)
Null == [t |-> "null", v |-> ""]
Num(text) == [t |-> "num", v |-> text]
Str(text) == [t |-> "str", v |-> text]

NoProperties == [present |-> FALSE, OBJECTID |-> Null, id |-> Null, ID |-> Null]

\* a ?? b
Coalesce(a, b) == IF a.t # "null" THEN a ELSE b

\* feature.properties?.key
PropertyOf(feature, key) ==
  IF feature.properties.present THEN feature.properties[key] ELSE Null

\* toFeatureId: String(value ?? "")
toFeatureId(value) == Str(Coalesce(value, Str("")).v)

\* `feature-${index}`
SyntheticId(index) == Str("feature-" \o ToString(index))

\* the candidate of ensureFeatureIds, lines 590-595
IdCandidate(feature, index) ==
  Coalesce(feature.id,
    Coalesce(PropertyOf(feature, "OBJECTID"),
      Coalesce(PropertyOf(feature, "id"),
        Coalesce(PropertyOf(feature, "ID"), SyntheticId(index)))))

\* an ensureFeatureIds that always writes the identifier into properties.id
EnsureFeatureId_Overwrite(feature, index) ==
  LET normalized == toFeatureId(IdCandidate(feature, index))
  IN  [feature EXCEPT
        !.id = normalized,
        !.properties = [@ EXCEPT !.present = TRUE, !.id = normalized]]

\* the body of the forEach of ensureFeatureIds for the feature at `index`
EnsureFeatureId(feature, index) ==
  LET normalized == toFeatureId(IdCandidate(feature, index))
  IN  [feature EXCEPT
        !.id = normalized,
        !.properties =
           IF ~feature.properties.present
           THEN [NoProperties EXCEPT !.present = TRUE, !.id = normalized]
           ELSE IF feature.properties.id.t = "null"
           THEN [@ EXCEPT !.id = normalized]
           ELSE @]

\* ensureFeatureIds; the index of forEach is 0-based
ensureFeatureIds(features) ==
  [i \in 1..Len(features) |-> EnsureFeatureId(features[i], i - 1)]

(***************************************************************************)
(* Geometries.  A coordinate is an integer number of millionths; a         *)
(* position is a sequence of coordinates; a geometry is                    *)
(* [type, coordinates, geometries].                                        *)
(***************************************************************************)
\* Number(value.toFixed(5)): the nearest multiple of 10 millionths, a tie
\* resolved away from zero (toFixed works on the absolute value and picks
\* the larger n)
RoundCoordinate(value) ==
  IF value >= 0 THEN ((value + 5) \div 10) * 10
  ELSE -(((-value + 5) \div 10) * 10)

\* a roundPosition that keeps only longitude and latitude
roundPosition_TwoComponents(position) ==
  [k \in 1..(IF Len(position) < 2 THEN Len(position) ELSE 2) |->
     RoundCoordinate(position[k])]

\* roundPosition
roundPosition(position) ==
  [k \in 1..Len(position) |-> RoundCoordinate(position[k])]

RoundPositions(positions) ==
  [k \in 1..Len(positions) |-> roundPosition(positions[k])]

RoundRings(rings) ==
  [k \in 1..Len(rings) |-> RoundPositions(rings[k])]

RoundPolygons(polygons) ==
  [k \in 1..Len(polygons) |-> RoundRings(polygons[k])]

\* roundGeometry of a geometry that is not null (`geometry.type` of null
\* throws, see ApplySuccess)
RECURSIVE roundGeometry(_)
roundGeometry(geometry) ==
  IF geometry.type = "Point"
  THEN [geometry EXCEPT !.coordinates = roundPosition(@)]
  ELSE IF geometry.type \in {"MultiPoint", "LineString"}
  THEN [geometry EXCEPT !.coordinates = RoundPositions(@)]
  ELSE IF geometry.type \in {"MultiLineString", "Polygon"}
  THEN [geometry EXCEPT !.coordinates = RoundRings(@)]
  ELSE IF geometry.type = "MultiPolygon"
  THEN [geometry EXCEPT !.coordinates = RoundPolygons(@)]
  ELSE IF geometry.type = "GeometryCollection"
  THEN [geometry EXCEPT !.geometries =
          [k \in 1..Len(geometry.geometries) |-> roundGeometry(geometry.geometries[k])]]
  ELSE geometry

\* cloneFeatureWithRoundedGeometry; the features of a collection that has
\* passed ensureFeatureIds have a properties object
cloneFeatureWithRoundedGeometry(feature) ==
  [id |-> feature.id,
   properties |-> IF feature.properties.present THEN feature.properties
                  ELSE [NoProperties EXCEPT !.present = TRUE],
   geometry |-> roundGeometry(feature.geometry)]

\* a sampling loop that steps one index further
StrideFor_OneMore(length, target) ==
  (IF length \div target < 1 THEN 1 ELSE length \div target) + 1

\* Math.max(1, Math.floor(length / target))
StrideFor(length, target) ==
  IF length \div target < 1 THEN 1 ELSE length \div target

\* the for loop of applyQuickPreview, lines 262-267, from `index` on
\* (0-based), with `sampled` collected so far
RECURSIVE SampleFrom(_, _, _, _, _)
SampleFrom(features, target, stride, index, sampled) ==
  IF index >= Len(features) \/ Len(sampled) >= target THEN sampled
  ELSE SampleFrom(features, target, stride, index + stride,
         Append(sampled, cloneFeatureWithRoundedGeometry(features[index + 1])))

\* applyQuickPreview with QUICK_SAMPLE_TARGET as a parameter
QuickPreviewOf(features, target) ==
  IF Len(features) <= target
  THEN [k \in 1..Len(features) |-> cloneFeatureWithRoundedGeometry(features[k])]
  ELSE SampleFrom(features, target, StrideFor(Len(features), target), 0, <<>>)

\* applyQuickPreview
applyQuickPreview(features) == QuickPreviewOf(features, QUICK_SAMPLE_TARGET)

(***************************************************************************)
(* The transform of the worker.  proj4 is outside the repository:          *)
(* Forward stands for converter.forward of proj4(definition, WGS84), a map *)
(* of two numbers to two numbers that depends on the definition.           *)
(***************************************************************************)
Forward(definition, lon, lat) ==
  IF definition = sridToProj4(4326) THEN <<lon, lat>>
  ELSE <<2 * lon + Len(definition[1]), 3 * lat - Len(definition[1])>>

\* position[k] ?? 0, k 0-based
ComponentOrZero(position, k) == IF k + 1 <= Len(position) THEN position[k + 1] ELSE 0

\* a transform that returns what proj4 returns
TransformPosition_Flat(srid, position) ==
  Forward(sridToProj4(srid), ComponentOrZero(position, 0), ComponentOrZero(position, 1))

\* the function createTransformer(srid) returns, for a srid of the catalog;
\* every component of a position is a number
TransformPosition(srid, position) ==
  LET xy   == Forward(sridToProj4(srid),
                      ComponentOrZero(position, 0), ComponentOrZero(position, 1))
      hasZ == Len(position) > 2
  IN  IF hasZ THEN <<xy[1], xy[2], position[3]>> ELSE xy

\* `null` of a geometry
NullGeometry == [type |-> "null", coordinates |-> <<>>, geometries |-> <<>>]

TransformPositions(srid, positions) ==
  [k \in 1..Len(positions) |-> TransformPosition(srid, positions[k])]

TransformRings(srid, rings) ==
  [k \in 1..Len(rings) |-> TransformPositions(srid, rings[k])]

TransformPolygons(srid, polygons) ==
  [k \in 1..Len(polygons) |-> TransformRings(srid, polygons[k])]

\* reprojectGeometry with the function createTransformer(srid) returns
RECURSIVE reprojectGeometry(_, _)
reprojectGeometry(geometry, srid) ==
  IF geometry.type = "Point"
  THEN [geometry EXCEPT !.coordinates = TransformPosition(srid, @)]
  ELSE IF geometry.type \in {"MultiPoint", "LineString"}
  THEN [geometry EXCEPT !.coordinates = TransformPositions(srid, @)]
  ELSE IF geometry.type \in {"MultiLineString", "Polygon"}
  THEN [geometry EXCEPT !.coordinates = TransformRings(srid, @)]
  ELSE IF geometry.type = "MultiPolygon"
  THEN [geometry EXCEPT !.coordinates = TransformPolygons(srid, @)]
  ELSE IF geometry.type = "GeometryCollection"
  THEN [geometry EXCEPT !.geometries =
          [k \in 1..Len(geometry.geometries) |->
             reprojectGeometry(geometry.geometries[k], srid)]]
  ELSE geometry

\* the body of the loop of reprojectCollection: a feature without a
\* geometry is skipped
ReprojectFeatureGeometry(geometry, srid) ==
  IF geometry.type = "null" THEN geometry ELSE reprojectGeometry(geometry, srid)

(***************************************************************************)
(* The decoder of the worker.  shpjs is outside the repository: its        *)
(* parseShp(buffer, trans) turns a string `trans` into proj4(trans), the   *)
(* projection from WGS84 to the one the text defines, and reads the x and  *)
(* y of every stored point through its inverse, the map from that          *)
(* projection to WGS84 that Forward stands for; without `trans` it reads   *)
(* them as stored.  Further components are read as stored.  A shapefile    *)
(* holds null shapes, points, lines and polygons.                          *)
(***************************************************************************)
\* parseCoord of the decoder
ParseCoord(prjText, stored) ==
  IF prjText = Undefined THEN stored
  ELSE LET xy == Forward(prjText, stored[1], stored[2])
       IN  [k \in 1..Len(stored) |-> IF k <= 2 THEN xy[k] ELSE stored[k]]

ParseCoords(prjText, positions) ==
  [k \in 1..Len(positions) |-> ParseCoord(prjText, positions[k])]

ParseRings(prjText, rings) ==
  [k \in 1..Len(rings) |-> ParseCoords(prjText, rings[k])]

ParsePolygons(prjText, polygons) ==
  [k \in 1..Len(polygons) |-> ParseRings(prjText, polygons[k])]

\* parseShp(shpBuffer, prjText) on one stored shape
parseShp(stored, prjText) ==
  IF stored.type = "Point"
  THEN [stored EXCEPT !.coordinates = ParseCoord(prjText, @)]
  ELSE IF stored.type \in {"MultiPoint", "LineString"}
  THEN [stored EXCEPT !.coordinates = ParseCoords(prjText, @)]
  ELSE IF stored.type \in {"MultiLineString", "Polygon"}
  THEN [stored EXCEPT !.coordinates = ParseRings(prjText, @)]
  ELSE IF stored.type = "MultiPolygon"
  THEN [stored EXCEPT !.coordinates = ParsePolygons(prjText, @)]
  ELSE stored

\* one iteration of the layer loop of parseArchive on one shape of a layer
\* with the .prj text `prj` (lines 299-313): the geometry decoded, the
\* geometry of the collection, and how often a projection was applied
ParseLayerShape(stored, prj, srid) ==
  LET projOverride == sridToProj4(srid)
      transformer  == createTransformer(srid)
      prjText      == PrjTextFor(projOverride, [prj |-> prj])
      decoded      == parseShp(stored, prjText)
  IN  [decoded  |-> decoded,
       geometry |-> IF transformer # Undefined
                    THEN ReprojectFeatureGeometry(decoded, srid) ELSE decoded,
       decoderTransformed |-> prjText # Undefined /\ stored.type # "null",
       transformerApplied |-> transformer # Undefined /\ stored.type # "null",
       status   |-> "success"]


(***************************************************************************)
(* summarizeCollection.  A value of a property is [t, v] as above, with    *)
(* t "nan" for a number that is not finite and "bool" for a boolean; a     *)
(* feature is the sequence of the cells of its properties object, in the   *)
(* order of ColumnNames, and the cell of a property the object does not    *)
(* have is Absent.  A number that may be null is [null, n]; a quotient is  *)
(* kept as [num, den].                                                     *)
(***************************************************************************)
UNIQUE_TRACK_LIMIT == 2000

Absent == [t |-> "absent", v |-> ""]
NaN == [t |-> "nan", v |-> "NaN"]
Bool(text) == [t |-> "bool", v |-> text]

None == [null |-> TRUE, n |-> 0]
Some(n) == [null |-> FALSE, n |-> n]

\* the names of the properties, in the order Object.entries yields them
ColumnNames == <<"name", "id">>

\* Number(value) of a number whose String() is `text`
NumberOf(text) == CHOOSE n \in -99..99 : ToString(n) = text

\* detectValueType
detectValueType(value) ==
  IF value.t = "null" THEN "null"
  ELSE IF value.t = "num" THEN "number"
  ELSE IF value.t = "nan" THEN "other"
  ELSE IF value.t = "str" THEN "string"
  ELSE IF value.t = "bool" THEN "boolean"
  ELSE "other"

\* text.trim() === "" for a text of spaces
RECURSIVE TrimIsEmpty(_)
TrimIsEmpty(text) ==
  Len(text) = 0 \/ (SubSeq(text, 1, 1) = " " /\ TrimIsEmpty(Tail(text)))

\* an isEmpty that takes a text of spaces for a value
IsEmptyValue_NullOnly(value) ==
  value.t = "null" \/ (value.t = "str" /\ Len(value.v) = 0)

\* isEmpty of registerValue
IsEmptyValue(value) ==
  value.t = "null" \/ (value.t = "str" /\ TrimIsEmpty(value.v))

\* the aggregate registerValue creates for a name it has not seen
NewAggregate ==
  [filled |-> 0, empty |-> 0, samples |-> <<>>, observedTypes |-> {},
   uniqueValues |-> {}, uniqueOverflow |-> FALSE,
   numeric |-> [null |-> TRUE, min |-> 0, max |-> 0, sum |-> 0, count |-> 0]]

\* the numeric part of registerValue, lines 684-700, for a finite number
RegisterNumber(numeric, numericValue) ==
  IF numeric.null
  THEN [null |-> FALSE, min |-> numericValue, max |-> numericValue,
        sum |-> numericValue, count |-> 1]
  ELSE [null |-> FALSE,
        min |-> IF numericValue < numeric.min THEN numericValue ELSE numeric.min,
        max |-> IF numericValue > numeric.max THEN numericValue ELSE numeric.max,
        sum |-> numeric.sum + numericValue,
        count |-> numeric.count + 1]

\* the numeric summary of the aggregate after `value`
RegisterNumberFor(aggregate, value) ==
  IF detectValueType(value) = "number"
  THEN RegisterNumber(aggregate.numeric, NumberOf(value.v))
  ELSE aggregate.numeric

\* uniqueValues after `value`: the key is String(value), so that values of
\* different types with one text share a key
RegisterUnique(aggregate, value) ==
  IF aggregate.uniqueOverflow THEN aggregate.uniqueValues
  ELSE aggregate.uniqueValues \cup {value.v}

\* a registerValue that gives up at the limit
OverflowsAt_AtLimit(size, limit) == size >= limit

\* uniqueValues.size > UNIQUE_TRACK_LIMIT
OverflowsAt(size, limit) == size > limit

\* registerValue on the aggregate of the name
RegisterValue(aggregate, value, limit) ==
  IF IsEmptyValue(value)
  THEN [aggregate EXCEPT !.empty = @ + 1, !.observedTypes = @ \cup {"null"}]
  ELSE [aggregate EXCEPT
          !.filled = @ + 1,
          !.observedTypes = @ \cup {detectValueType(value)},
          !.samples = IF Len(@) < 3 THEN Append(@, value.v) ELSE @,
          !.uniqueValues = RegisterUnique(aggregate, value),
          !.uniqueOverflow =
             @ \/ OverflowsAt(Cardinality(RegisterUnique(aggregate, value)), limit),
          !.numeric = RegisterNumberFor(aggregate, value)]

\* position of `name` in the aggregates, 0 when it has none
AggregateOf(aggregates, name) ==
  IF \E k \in 1..Len(aggregates) : aggregates[k].name = name
  THEN CHOOSE k \in 1..Len(aggregates) : aggregates[k].name = name
  ELSE 0

\* registerValue(name, value): aggregates is the Map, in insertion order
registerValue(aggregates, name, value, limit) ==
  IF AggregateOf(aggregates, name) = 0
  THEN Append(aggregates,
              [name |-> name, aggregate |-> RegisterValue(NewAggregate, value, limit)])
  ELSE [aggregates EXCEPT ![AggregateOf(aggregates, name)].aggregate =
          RegisterValue(@, value, limit)]

\* the inner loop of lines 703-708 over the entries of one feature, from
\* the k-th name on
RECURSIVE RegisterFeature(_, _, _, _)
RegisterFeature(aggregates, feature, k, limit) ==
  IF k > Len(ColumnNames) THEN aggregates
  ELSE IF feature[k].t = "absent"
  THEN RegisterFeature(aggregates, feature, k + 1, limit)
  ELSE RegisterFeature(registerValue(aggregates, ColumnNames[k], feature[k], limit),
                       feature, k + 1, limit)

\* the outer loop of lines 703-708 over the features 1..count
RECURSIVE RegisterFeatures(_, _, _)
RegisterFeatures(features, count, limit) ==
  IF count = 0 THEN <<>>
  ELSE RegisterFeature(RegisterFeatures(features, count - 1, limit),
                       features[count], 1, limit)

\* an observed that keeps "null"
ObservedTypes_WithNull(aggregate) == aggregate.observedTypes

\* observed: the types of the aggregate without "null"
ObservedTypes(aggregate) == aggregate.observedTypes \ {"null"}

\* dataType of a column, lines 717-724
DataTypeOf(aggregate) ==
  IF aggregate.filled = 0 THEN "null"
  ELSE IF Cardinality(ObservedTypes(aggregate)) = 1
  THEN CHOOSE type \in ObservedTypes(aggregate) : TRUE
  ELSE IF Cardinality(ObservedTypes(aggregate)) = 0 THEN "null"
  ELSE "mixed"

\* the ColumnStat of lines 711-751
ColumnStat(entry, featureCount) ==
  [name |-> entry.name,
   filled |-> entry.aggregate.filled,
   empty |-> entry.aggregate.empty,
   fillRate |-> [num |-> entry.aggregate.filled * 100, den |-> featureCount],
   samples |-> entry.aggregate.samples,
   dataType |-> DataTypeOf(entry.aggregate),
   uniqueCount |-> IF entry.aggregate.uniqueOverflow THEN None
                   ELSE Some(Cardinality(entry.aggregate.uniqueValues)),
   uniqueRatio |-> IF entry.aggregate.uniqueOverflow
                   THEN [null |-> TRUE, num |-> 0, den |-> 1]
                   ELSE [null |-> FALSE,
                         num |-> Cardinality(entry.aggregate.uniqueValues),
                         den |-> featureCount],
   numericSummary |->
     IF ~entry.aggregate.numeric.null /\ entry.aggregate.numeric.count # 0
     THEN [null |-> FALSE, min |-> entry.aggregate.numeric.min,
           max |-> entry.aggregate.numeric.max,
           mean |-> [num |-> entry.aggregate.numeric.sum,
                     den |-> entry.aggregate.numeric.count]]
     ELSE [null |-> TRUE, min |-> 0, max |-> 0, mean |-> [num |-> 0, den |-> 1]]]

\* a.fillRate - b.fillRate < 0, for quotients of one denominator
FillsLess(a, b) == a.fillRate.num * b.fillRate.den < b.fillRate.num * a.fillRate.den

\* `column` put into a sorted list behind the columns that do not fill more
RECURSIVE InsertColumn(_, _)
InsertColumn(sorted, column) ==
  IF Len(sorted) = 0 THEN <<column>>
  ELSE IF FillsLess(column, sorted[Len(sorted)])
  THEN Append(InsertColumn(SubSeq(sorted, 1, Len(sorted) - 1), column),
              sorted[Len(sorted)])
  ELSE Append(sorted, column)

\* columns.sort((a, b) => a.fillRate - b.fillRate): the sort is stable
RECURSIVE SortColumns(_, _)
SortColumns(columns, count) ==
  IF count = 0 THEN <<>>
  ELSE InsertColumn(SortColumns(columns, count - 1), columns[count])

ColumnsOf(aggregates, featureCount) ==
  SortColumns([k \in 1..Len(aggregates) |-> ColumnStat(aggregates[k], featureCount)],
              Len(aggregates))

\* summarizeCollection with UNIQUE_TRACK_LIMIT as a parameter: the feature
\* count and the columns of the result
SummaryOf(features, limit) ==
  [featureCount |-> Len(features),
   columns |-> ColumnsOf(RegisterFeatures(features, Len(features), limit),
                         Len(features))]

\* summarizeCollection
summarizeCollection(features) == SummaryOf(features, UNIQUE_TRACK_LIMIT)

(***************************************************************************)
(* Inputs of the pure functions.  A .prj text is put together from the     *)
(* fragments below, separated by ";"; each fragment records what it is:    *)
(* authority (the code of an EPSG authority fragment, 0: none), numeric    *)
(* (the catalog code it spells in digits), named (the catalog code whose   *)
(* descriptive name it is), tm and korea (the words of the heuristic).     *)
(***************************************************************************)
PrjFragments ==
  <<
     \* an authority fragment for the catalog code 5186
     [text |-> <<"A","U","T","H","O","R","I","T","Y","[","\"","E","P","S","G",
                "\"",",","\"","5","1","8","6","\"","]">>,
      authority |-> 5186, numeric |-> 5186, named |-> 0, tm |-> FALSE, korea |-> FALSE],
     \* an authority fragment for a code outside the catalog (the GRS 1980 spheroid)
     [text |-> <<"A","U","T","H","O","R","I","T","Y","[","\"","E","P","S","G",
                "\"",",","\"","7","0","1","9","\"","]">>,
      authority |-> 7019, numeric |-> 0, named |-> 0, tm |-> FALSE, korea |-> FALSE],
     \* the exact numeric code of a catalog entry
     [text |-> <<"5","1","8","6">>,
      authority |-> 0, numeric |-> 5186, named |-> 0, tm |-> FALSE, korea |-> FALSE],
     \* the exact numeric code of another catalog entry
     [text |-> <<"3","8","5","7">>,
      authority |-> 0, numeric |-> 3857, named |-> 0, tm |-> FALSE, korea |-> FALSE],
     \* a descriptive name fragment of 4326
     [text |-> <<"G","C","S","_","W","G","S","_","1","9","8","4">>,
      authority |-> 0, numeric |-> 0, named |-> 4326, tm |-> FALSE, korea |-> FALSE],
     \* a descriptive name fragment of 5186
     [text |-> <<"C","e","n","t","r","a","l","_","B","e","l","t","_","2","0","1",
                "0">>,
      authority |-> 0, numeric |-> 0, named |-> 5186, tm |-> FALSE, korea |-> FALSE],
     \* one half of the heuristic
     [text |-> <<"T","r","a","n","s","v","e","r","s","e","_","M","e","r","c","a",
                "t","o","r">>,
      authority |-> 0, numeric |-> 0, named |-> 0, tm |-> TRUE, korea |-> FALSE],
     \* the other half of the heuristic
     [text |-> <<"K","o","r","e","a">>,
      authority |-> 0, numeric |-> 0, named |-> 0, tm |-> FALSE, korea |-> TRUE],
     \* nothing the detection knows
     [text |-> <<"L","O","C","A","L","_","C","S">>,
      authority |-> 0, numeric |-> 0, named |-> 0, tm |-> FALSE, korea |-> FALSE] >>

\* bounds of the inputs
MaxParts == 3
MaxIdFeatures == 2
MaxSampled == 12
MaxTarget == 4
MaxChildren == 2
MaxSummarized == 3
MaxEntries == 3
MaxLimit == 2

\* the fragments parts[1], parts[2], ... joined by ";"
RECURSIVE JoinFragments(_)
JoinFragments(parts) ==
  IF parts = <<>> THEN <<>>
  ELSE IF Len(parts) = 1 THEN PrjFragments[parts[1]].text
  ELSE PrjFragments[parts[1]].text \o <<";">> \o JoinFragments(Tail(parts))

PartLists == UNION {[1..n -> 1..Len(PrjFragments)] : n \in 0..MaxParts}

\* the values a feature id or an id property has in the inputs
IdValues == {Null, Num("7"), Str("feature-1")}

PropertyObjects ==
  {NoProperties} \cup
  [present : {TRUE}, OBJECTID : IdValues, id : IdValues, ID : IdValues]

Point(position) == [type |-> "Point", coordinates |-> position, geometries |-> <<>>]

Origin == Point(<<0, 0>>)

\* the features ensureFeatureIds is applied to
IdFeatures ==
  [id : IdValues, properties : PropertyObjects, geometry : {Origin}]

IdInputs == UNION {[1..n -> IdFeatures] : n \in 0..MaxIdFeatures}

\* coordinates, in millionths: a tie below zero, above zero, values that
\* round down and up, a multiple of the unit
Coordinates == {-15, -4, 5, 123456, 1270000}

Positions2 == [1..2 -> Coordinates]

Positions3 == [1..3 -> Coordinates]

\* a few positions for the geometries with many of them
SomePositions == << <<-15, 5>>, <<123456, -4>>, <<5, -15, 123456>> >>

PositionLists ==
  UNION {[1..n -> {SomePositions[k] : k \in 1..Len(SomePositions)}] : n \in 1..2}

SomeRings ==
  << << <<-15, 5>>, <<123456, -4>>, <<-15, 5>> >>,
     << <<5, -15, 123456>>, <<-4, -4, -4>> >> >>

RingLists ==
  UNION {[1..n -> {SomeRings[k] : k \in 1..Len(SomeRings)}] : n \in 1..2}

SomePolygons ==
  << << SomeRings[1] >>, << SomeRings[1], SomeRings[2] >> >>

PolygonLists ==
  UNION {[1..n -> {SomePolygons[k] : k \in 1..Len(SomePolygons)}] : n \in 1..2}

Flat(type, coordinates) ==
  [type |-> type, coordinates |-> coordinates, geometries |-> <<>>]

Collection(children) ==
  [type |-> "GeometryCollection", coordinates |-> <<>>, geometries |-> children]

\* the children a GeometryCollection of the inputs is made of
SomeChildren ==
  << Point(<<-15, 5, 123456>>),
     Flat("LineString", << <<-15, 5>>, <<123456, -4>> >>),
     Flat("Polygon", << SomeRings[1] >>),
     Flat("MultiPolygon", << << SomeRings[2] >> >>),
     Collection(<< Point(<<5, -4>>), Collection(<< Point(<<-15, -15, -15>>) >>) >>) >>

ChildLists == UNION {[1..n -> 1..Len(SomeChildren)] : n \in 0..MaxChildren}

\* a feature as runParse hands it to applyQuickPreview: ensureFeatureIds has
\* run, so it has an id and a properties object
FeatureAt(index, geometry) ==
  [id |-> SyntheticId(index),
   properties |-> [present |-> TRUE, OBJECTID |-> Num(ToString(index + 1)),
                   id |-> SyntheticId(index), ID |-> Null],
   geometry |-> geometry]

\* n features with a point each
PointFeatures(n) == [i \in 1..n |-> FeatureAt(i - 1, Point(<<10 * i + 4, -10 * i - 5>>))]

\* the shapes a layer of the inputs stores
StoredShapes ==
  << NullGeometry,
     Point(<<5, -4>>),
     Point(<<5, -15, 123456>>),
     Flat("MultiPoint", << <<-15, 5>>, <<5, -15, 123456>> >>),
     Flat("LineString", << <<-15, 5>>, <<123456, -4>> >>),
     Flat("MultiLineString", << SomeRings[2] >>),
     Flat("Polygon", << SomeRings[1] >>),
     Flat("MultiPolygon", << << SomeRings[1] >>, << SomeRings[2] >> >>) >>

\* the codes a request to the worker carries: none, those of the catalog,
\* one the catalog does not have
RequestCodes == {0, 9999} \cup SridCodes

\* the .prj text of a layer: none, or one proj4 reads
LayerPrjTexts == {Undefined, PrjEpsg5186}

\* the cells of the property "name": missing in the feature, empty, texts,
\* numbers, a number that is not finite, a boolean
NameCells ==
  {Absent, Null, Str(""), Str("  "), Str("a"), Str("b"), Num("7"), Num("-3"),
   NaN, Bool("true")}

\* the cells of the property "id", which ensureFeatureIds has filled
IdCells == {Num("7"), Str("feature-1")}

SummaryFeatures == {<<name, id>> : name \in NameCells, id \in IdCells}

SummaryInputs == UNION {[1..n -> SummaryFeatures] : n \in 0..MaxSummarized}

\* the entries an archive of the inputs is made of: members of the layer
\* "r" at the top, below a directory, behind a backslash and with an
\* extension in capitals; two .prj and two .cpg of that layer; a member of
\* the layer "R"; an index member; members that belong to no layer
ArchiveEntries ==
  << Bin(<<"r",".","s","h","p">>, 2, TRUE),
     Bin(<<"d","/","r",".","D","B","F">>, 2, TRUE),
     Bin(<<"d","\\","r",".","s","h","x">>, 0, TRUE),
     Txt(<<"r",".","p","r","j">>, <<" ">> \o PrjEpsg5186 \o <<"\n">>),
     Txt(<<"e","\\","r",".","P","R","J">>, PrjUnknown),
     Txt(<<"r",".","c","p","g">>, CpgUtf8),
     Txt(<<"d","/","r",".","c","p","g">>, CpgMs949),
     Bin(<<"R",".","s","h","p">>, 1, TRUE),
     Bin(<<"r",".","q","i","x">>, 0, TRUE),
     Txt(<<"r",".","t","x","t">>, <<"x">>),
     Txt(<<"d","/",".","p","r","j">>, PrjUnknown) >>

ArchiveInputs == UNION {[1..n -> 1..Len(ArchiveEntries)] : n \in 0..MaxEntries}

Bench(kind, input) == [kind |-> kind, input |-> input, output |-> <<>>, done |-> FALSE]

Preview(features, target) == Bench("preview", [features |-> features, target |-> target])

\* the viewer and the worker stay as they are after construction; the bench
\* holds one input of one of the functions
BenchInit ==
  /\ app = InitialApp /\ pending = <<>> /\ toWorker = <<>> /\ jobs = {}
  /\ toViewer = <<>> /\ posted = <<>> /\ decodeLog = {} /\ dropCount = 0
  /\ \/ \E parts \in PartLists :
          lab = Bench("prj", [parts |-> parts, text |-> JoinFragments(parts)])
     \/ \E features \in IdInputs : lab = Bench("ids", features)
     \/ \E n \in 0..MaxSampled, target \in 1..MaxTarget :
          lab = Preview(PointFeatures(n), target)
     \/ \E position \in Positions2 \cup Positions3, target \in 1..MaxTarget :
          lab = Preview(<< FeatureAt(0, Point(position)) >>, target)
     \/ \E type \in {"MultiPoint", "LineString"}, positions \in PositionLists :
          lab = Preview(<< FeatureAt(0, Flat(type, positions)) >>, 1)
     \/ \E type \in {"MultiLineString", "Polygon"}, rings \in RingLists :
          lab = Preview(<< FeatureAt(0, Flat(type, rings)) >>, 1)
     \/ \E polygons \in PolygonLists :
          lab = Preview(<< FeatureAt(0, Flat("MultiPolygon", polygons)) >>, 1)
     \/ \E children \in ChildLists :
          lab = Preview(<< FeatureAt(0,
                  Collection([k \in 1..Len(children) |-> SomeChildren[children[k]]])) >>, 1)
     \/ \E srid \in SridCodes, position \in Positions2 \cup Positions3 :
          lab = Bench("position", [srid |-> srid, position |-> position])
     \/ \E members \in ArchiveInputs :
          lab = Bench("archive", [k \in 1..Len(members) |-> ArchiveEntries[members[k]]])
     \/ \E features \in SummaryInputs, limit \in 1..MaxLimit :
          lab = Bench("summary", [features |-> features, limit |-> limit])
     \/ \E k \in 1..Len(StoredShapes), prj \in LayerPrjTexts, srid \in RequestCodes :
          lab = Bench("layer", [stored |-> StoredShapes[k], prj |-> prj, srid |-> srid])

Viewer == <<app, pending, toWorker, jobs, toViewer, posted, decodeLog, dropCount>>

\* the function is applied: the bench keeps its input and takes its output
Applied(output) == [lab EXCEPT !.output = output, !.done = TRUE]

\* inspectZipEntries, lines 936-942: the code detected from a .prj
DetectSrid ==
  /\ lab.kind = "prj" /\ ~lab.done
  /\ lab' = Applied(detectSridFromPrj(lab.input.text))
  /\ UNCHANGED Viewer

\* runParse, line 793
EnsureIds ==
  /\ lab.kind = "ids" /\ ~lab.done
  /\ lab' = Applied(ensureFeatureIds(lab.input))
  /\ UNCHANGED Viewer

\* runParse, line 806
QuickPreview ==
  /\ lab.kind = "preview" /\ ~lab.done
  /\ lab' = Applied(QuickPreviewOf(lab.input.features, lab.input.target))
  /\ UNCHANGED Viewer

\* reprojectCollection: the transform on one position
Reproject ==
  /\ lab.kind = "position" /\ ~lab.done
  /\ lab' = Applied(TransformPosition(lab.input.srid, lab.input.position))
  /\ UNCHANGED Viewer

\* parseArchive, lines 299-313: one shape of one layer
ParseLayer ==
  /\ lab.kind = "layer" /\ ~lab.done
  /\ lab' = Applied(ParseLayerShape(lab.input.stored, lab.input.prj, lab.input.srid))
  /\ UNCHANGED Viewer

\* runParse, line 818
Summarize ==
  /\ lab.kind = "summary" /\ ~lab.done
  /\ lab' = Applied(SummaryOf(lab.input.features, lab.input.limit))
  /\ UNCHANGED Viewer

\* the two passes over the entries of an archive: inspectZipEntries of
\* processFile (App.vue, line 524) and collectEntries of parseArchive
ReadArchive ==
  /\ lab.kind = "archive" /\ ~lab.done
  /\ lab' = Applied([inspection |-> inspectZipEntries(lab.input),
                     files |-> collectEntries(lab.input)])
  /\ UNCHANGED Viewer

BenchNext ==
  \/ DetectSrid \/ EnsureIds \/ QuickPreview \/ Reproject \/ ParseLayer
  \/ Summarize \/ ReadArchive

BenchSpec == BenchInit /\ [][BenchNext]_vars

(***************************************************************************)
(* Properties                                                              *)
(***************************************************************************)
\* the refs an outcome of runParse may change
Outcome(a) ==
  <<a.currentCollection, a.result, a.errorMessage, a.selectedFeatureId,
    a.largeDataset, a.parseStats>>

\* C1: when the viewer handles the success or error of a runParse whose
\* jobId is no longer parseRunId, none of currentCollection, result,
\* errorMessage, selectedFeatureId, largeDataset and parseStats changes; a
\* collection that becomes the shown one was produced by the runParse
\* started last.
C1_StaleOutcomeIgnored ==
  [][ /\ \A e \in app.workerResolvers :
           ( /\ toViewer # <<>>
             /\ toViewer' = Tail(toViewer)
             /\ Head(toViewer).status # "progress"
             /\ Head(toViewer).id = e.id
             /\ e.jobId # app.parseRunId )
           => Outcome(app') = Outcome(app)
      /\ ( /\ app'.currentCollection # app.currentCollection
           /\ app'.currentCollection # NullRec )
         => app'.currentCollection.jobId = app.parseRunId ]_vars

\* C1 witness: two runParse calls and no resetViewer; the worker's success
\* for the first has been handled while the second was in flight, and
\* nothing is shown
C1_Witness ==
  /\ app.parseRunId = 2 /\ app.workerJobId = 2
  /\ \E k \in 1..Len(posted) : posted[k].id = 1 /\ posted[k].status = "success"
  /\ \A k \in 1..Len(toViewer) : toViewer[k].id # 1
  /\ \A e \in app.workerResolvers : e.id # 1
  /\ \E e \in app.workerResolvers : e.id = 2
  /\ app.currentCollection = NullRec
  /\ app.errorMessage = ""

\* the messages posted with one request id, in the order of posting
PostedFor(id) == SelectSeq(posted, LAMBDA m : m.id = id)

ProgressFor(id) == SelectSeq(posted, LAMBDA m : m.id = id /\ m.status = "progress")

ReceivedIds == {posted[k].id : k \in 1..Len(posted)}

DecodedFor(id) == {d \in decodeLog : d.request.id = id}

\* C2: for every request the worker has received, one terminal message
\* (success or error) is posted once the worker has finished it and none
\* before; it is the last message with that id; it is a success only if at
\* least one layer was decoded and no decoder threw, and an error carries no
\* collection.
C2_OneTerminalMessage ==
  /\ \A id \in ReceivedIds :
       LET msgs      == PostedFor(id)
           terminals == {k \in 1..Len(msgs) : msgs[k].status # "progress"}
       IN  /\ Cardinality(terminals) = IF \E r \in jobs : r.id = id THEN 0 ELSE 1
           /\ terminals \subseteq {Len(msgs)}
           /\ \A k \in terminals :
                /\ msgs[k].status \in {"success", "error"}
                /\ msgs[k].status = "success" <=>
                     /\ DecodedFor(id) # {}
                     /\ \A d \in DecodedFor(id) : ~d.layer.throws
                /\ msgs[k].status = "error" => \A d \in DecodedFor(id) : ~d.delivered
  /\ \A k \in 1..Len(toViewer) :
       toViewer[k].status = "error" => toViewer[k].collection = NullRec

\* C2 witness: the worker has answered one request with a success and
\* another, whose .dbf cannot be decoded, with an error
C2_Witness ==
  /\ \E k \in 1..Len(posted) : posted[k].status = "success"
  /\ \E k \in 1..Len(posted) :
       /\ posted[k].status = "error"
       /\ \E d \in DecodedFor(posted[k].id) : d.layer.throws

MaxLayers == 6

NonDecreasing(percents) ==
  \A k \in 1..(Len(percents) - 1) : percents[k] <= percents[k + 1]

\* the percents a job over `total` layers reports when no decoder throws
PercentsOf(total) ==
  LET reports == << Progress("zip", 0, 5, 1), Progress("layers", 0, 12, 1) >>
                   \o LayerProgress(total, total, FALSE)
                   \o << Progress("geojson", 0, 90, 1) >>
  IN  [k \in 1..Len(reports) |-> reports[k].percent]

\* the reports of a job over any number of layers from 1 to MaxLayers are
\* integers in 1..99, never decrease, start at 5 and end at 90
PercentsWellFormed ==
  \A total \in 1..MaxLayers :
    /\ \A k \in 1..(3 + 2 * total) : PercentsOf(total)[k] \in 1..99
    /\ NonDecreasing(PercentsOf(total))
    /\ PercentsOf(total)[1] = 5 /\ PercentsOf(total)[3 + 2 * total] = 90

\* C3: the percents of the progress messages of one job are integers in
\* 1..99, never decrease, start at 5 and, when the job succeeds, end at 90
\* after a start and a done report per layer; the same holds of the reports
\* of a job over any number of layers from 1 to MaxLayers.
C3_ProgressMonotone ==
  /\ \A id \in ReceivedIds :
       LET reports  == ProgressFor(id)
           percents == [k \in 1..Len(reports) |-> reports[k].percent]
           last     == PostedFor(id)[Len(PostedFor(id))]
       IN  /\ \A k \in 1..Len(percents) : percents[k] \in 1..99
           /\ NonDecreasing(percents)
           /\ percents[1] = 5
           /\ last.status = "success" =>
                /\ percents[Len(percents)] = 90
                /\ Len(percents) = 3 + 2 * Cardinality(DecodedFor(id))
  /\ PercentsWellFormed

\* C3 witness: a job over two layers has reported the end of its second
\* layer and has succeeded
C3_Witness ==
  \E k \in 1..Len(posted) :
    /\ posted[k].status = "success"
    /\ \E j \in 1..Len(posted) :
         /\ posted[j].id = posted[k].id
         /\ posted[j].label = "layer-done" /\ posted[j].layer = 2

\* the inspection of the loaded archive found no layer with .shp, .dbf and
\* .shx
NoValidLayerReported ==
  app.zipInspection # NullRec /\ ~app.zipInspection.hasValidLayer

\* C4: once the inspection of the loaded archive has found no layer with
\* .shp, .dbf and .shx, no step posts a parse request to the worker, and
\* result and currentCollection stay null.
C4_InvalidArchiveNeverParsed ==
  [][ NoValidLayerReported =>
        /\ Len(toWorker') <= Len(toWorker)
        /\ app'.result = NullRec
        /\ app'.currentCollection = NullRec ]_vars

\* the inspection's status of the layer a decoded collection came from
StatusOf(d) ==
  LET layers == Inspected[d.request.buffer].layers
  IN  layers[CHOOSE i \in 1..Len(layers) : layers[i].name = d.layer.fileName]

\* C5: every layer the worker decodes has its .shp, .dbf and .shx in the
\* archive.
C5_DecodedLayersAreValid ==
  \A d \in decodeLog : LayerIsValid(StatusOf(d))

\* a decoded layer with an attribute table and a non-empty .cpg
HasCpgHint(d) == d.layer.hasDbf /\ d.layer.cpg # Undefined /\ d.layer.cpg # <<>>

\* C6: a layer whose .cpg is a recognized label has its attribute table
\* decoded with the canonical tag of that label, whatever encoding the
\* request carries.
C6_RecognizedCpgUsesCanonicalTag ==
  \A d \in decodeLog :
    (HasCpgHint(d) /\ parseEncodingLabel(d.layer.cpg) # "undefined")
      => ToLowerCase(d.layer.cpgLabel) = mapEncoding(parseEncodingLabel(d.layer.cpg))

\* C7: a layer whose .cpg is present but not a recognized label has its
\* attribute table decoded with the encoding of the request.
C7_UnrecognizedCpgUsesRequestEncoding ==
  \A d \in decodeLog :
    (HasCpgHint(d) /\ parseEncodingLabel(d.layer.cpg) = "undefined")
      => d.layer.cpgLabel = mapEncoding(d.request.encoding)

\* C8: when the request carries an override code and the layer has a .prj,
\* the definition handed to the decoder and the definition the transformer
\* is built from are the catalog definition of the override code, not the
\* text of the .prj.
C8_OverrideBeatsPrj ==
  \A d \in decodeLog :
    (d.request.srid # 0 /\ d.layer.prj # Undefined)
      => \E i \in 1..Len(SRID_OPTIONS) :
           /\ SRID_OPTIONS[i].code = d.request.srid
           /\ d.layer.transform = SRID_OPTIONS[i].proj4
           /\ d.layer.prjText = SRID_OPTIONS[i].proj4
           /\ d.layer.prjText # d.layer.prj

\* C8 witness: a layer with a .prj has been decoded for a request that
\* carries an override code
C8_Witness ==
  \E d \in decodeLog :
    d.request.srid # 0 /\ d.layer.prj # Undefined /\ ~d.layer.throws

\* what the viewer has to tell the user that a projection is missing: the
\* SRID modal ("PRJ 정보를 찾지 못했어요") or an error message
ProjectionSignal == app.sridModalVisible \/ app.errorMessage # ""

\* C9: a layer without .prj decoded for a request without override code is
\* passed through untransformed, and while it is shown as the result the
\* viewer signals that its projection is unresolved.
C9_UnresolvedProjectionSignalled ==
  /\ \A d \in decodeLog :
       (d.request.srid = 0 /\ d.layer.prj = Undefined)
         => (d.layer.transform = Undefined /\ d.layer.prjText = Undefined)
  /\ ( /\ app.result # NullRec
       /\ app.currentCollection # NullRec
       /\ app.currentCollection.layer.prj = Undefined
       /\ app.currentCollection.layer.transform = Undefined )
     => ProjectionSignal

\* the requests posted by the step
NewRequests == SubSeq(toWorker', Len(toWorker) + 1, Len(toWorker'))

C11_RowCountMismatchFails ==
  \A d \in decodeLog :
    (d.layer.hasDbf /\ ~d.layer.throws /\ d.layer.features # d.layer.rows)
      => ~\E k \in 1..Len(posted) :
            posted[k].id = d.request.id /\ posted[k].status = "success"

\* ensureFeatureIds has run on the collection of the bench
IdsAssigned == lab.kind = "ids" /\ lab.done

\* C12: after ensureFeatureIds has run on a collection, no two of its
\* features have the same id.
C12_FeatureIdsUnique ==
  IdsAssigned =>
    \A i, j \in 1..Len(lab.output) :
      i # j => lab.output[i].id # lab.output[j].id

\* the first non-null value among feature.id, properties.OBJECTID,
\* properties.id and properties.ID, Null when there is none
FirstGivenId(feature) ==
  IF feature.id.t # "null" THEN feature.id
  ELSE IF ~feature.properties.present THEN Null
  ELSE IF feature.properties.OBJECTID.t # "null" THEN feature.properties.OBJECTID
  ELSE IF feature.properties.id.t # "null" THEN feature.properties.id
  ELSE feature.properties.ID

\* C13: ensureFeatureIds gives each feature, as a string, the first non-null
\* value among feature.id, properties.OBJECTID, properties.id and
\* properties.ID, and "feature-<index>" of its position when there is none;
\* a synthesized identifier is also written into properties.id; a non-null
\* properties.id is kept as it was.
C13_IdPrecedence ==
  IdsAssigned =>
    /\ Len(lab.output) = Len(lab.input)
    /\ \A i \in 1..Len(lab.input) :
         LET before == lab.input[i]
             after  == lab.output[i]
             given  == FirstGivenId(before)
         IN  /\ after.id.t = "str"
             /\ given.t # "null" => after.id.v = given.v
             /\ given.t = "null" =>
                  /\ after.id.v = "feature-" \o ToString(i - 1)
                  /\ after.properties.present
                  /\ after.properties.id = after.id
             /\ (before.properties.present /\ before.properties.id.t # "null") =>
                  after.properties.id = before.properties.id

\* C13 witness: ensureFeatureIds has run on two features, one with a
\* feature.id and another properties.id, one without any identifier
C13_Witness ==
  /\ IdsAssigned
  /\ Len(lab.input) = 2
  /\ lab.input[1].id.t = "num"
  /\ lab.input[1].properties.present /\ lab.input[1].properties.id.t = "str"
  /\ FirstGivenId(lab.input[2]).t = "null"
  /\ lab.output[2].id = Str("feature-1")

\* applyQuickPreview has run on the collection of the bench
Previewed == lab.kind = "preview" /\ lab.done

Min(a, b) == IF a <= b THEN a ELSE b

\* the 1-based position in the input of the k-th feature a quick preview of
\* n features with target T keeps: index 0, s, 2s, ... with s = floor(n / T)
KeptPosition(n, T, k) == IF n <= T THEN k ELSE (k - 1) * (n \div T) + 1

\* numbers of features around the multiples of QUICK_SAMPLE_TARGET
FeatureCounts ==
  {0, 1, QUICK_SAMPLE_TARGET - 1, QUICK_SAMPLE_TARGET, QUICK_SAMPLE_TARGET + 1,
   2 * QUICK_SAMPLE_TARGET - 1, 2 * QUICK_SAMPLE_TARGET, LARGE_FEATURE_THRESHOLD,
   6 * QUICK_SAMPLE_TARGET - 1, 6 * QUICK_SAMPLE_TARGET}

\* C14: applyQuickPreview of n features with target T returns min(n, T)
\* features: all of them in their order when n <= T, else the T features at
\* the indices 0, s, 2s, ... with s = floor(n / T), in increasing order; with
\* the target 25,000 the viewer counts min(n, 25000) sampled features and
\* steps by floor(n / 25000).
C14_QuickPreviewSample ==
  /\ Previewed =>
       LET n == Len(lab.input.features)
           T == lab.input.target
       IN  /\ Len(lab.output) = Min(n, T)
           /\ \A k \in 1..Len(lab.output) :
                /\ KeptPosition(n, T, k) \in 1..n
                /\ lab.output[k].id = lab.input.features[KeptPosition(n, T, k)].id
  /\ \A n \in FeatureCounts :
       /\ QuickCount(n) = Min(n, QUICK_SAMPLE_TARGET)
       /\ n > QUICK_SAMPLE_TARGET => QuickStride(n) = n \div QUICK_SAMPLE_TARGET

\* C14 witness: a preview of 11 features with target 4 has been taken (the
\* loop stops at the target before the end of the collection)
C14_Witness ==
  /\ Previewed
  /\ Len(lab.input.features) = 11 /\ lab.input.target = 4
  /\ Len(lab.output) = 4

Distance(a, b) == IF a >= b THEN a - b ELSE b - a

\* `after` is `before` rounded to 5 decimals: a multiple of 10 millionths at
\* most 5 millionths away
IsRounded(before, after) == after % 10 = 0 /\ Distance(before, after) <= 5

PositionIsRounded(before, after) ==
  /\ Len(after) = Len(before)
  /\ \A k \in 1..Len(before) : IsRounded(before[k], after[k])

PositionsAreRounded(before, after) ==
  /\ Len(after) = Len(before)
  /\ \A k \in 1..Len(before) : PositionIsRounded(before[k], after[k])

RingsAreRounded(before, after) ==
  /\ Len(after) = Len(before)
  /\ \A k \in 1..Len(before) : PositionsAreRounded(before[k], after[k])

PolygonsAreRounded(before, after) ==
  /\ Len(after) = Len(before)
  /\ \A k \in 1..Len(before) : RingsAreRounded(before[k], after[k])

\* same type, same nesting, every component rounded
RECURSIVE GeometryIsRounded(_, _)
GeometryIsRounded(before, after) ==
  /\ after.type = before.type
  /\ before.type = "Point" =>
       PositionIsRounded(before.coordinates, after.coordinates)
  /\ before.type \in {"MultiPoint", "LineString"} =>
       PositionsAreRounded(before.coordinates, after.coordinates)
  /\ before.type \in {"MultiLineString", "Polygon"} =>
       RingsAreRounded(before.coordinates, after.coordinates)
  /\ before.type = "MultiPolygon" =>
       PolygonsAreRounded(before.coordinates, after.coordinates)
  /\ Len(after.geometries) = Len(before.geometries)
  /\ \A k \in 1..Len(before.geometries) :
       GeometryIsRounded(before.geometries[k], after.geometries[k])

\* C15: every feature with a geometry that a quick preview keeps has the
\* type and the nesting of its input geometry (parts, rings, positions, children of a
\* GeometryCollection), every component of every position rounded to 5
\* decimals, and the id and the properties of its input feature.
C15_RoundedGeometryKeepsStructure ==
  Previewed =>
    \A k \in 1..Len(lab.output) :
      LET before == lab.input.features[
                      KeptPosition(Len(lab.input.features), lab.input.target, k)]
          after  == lab.output[k]
      IN  /\ after.id = before.id
          /\ after.properties = before.properties
          /\ GeometryIsRounded(before.geometry, after.geometry)

\* C15 witness: a preview has been taken of a GeometryCollection whose second
\* child is a GeometryCollection itself
C15_Witness ==
  /\ Previewed
  /\ Len(lab.output) = 1
  /\ lab.input.features[1].geometry.type = "GeometryCollection"
  /\ Len(lab.input.features[1].geometry.geometries) = 2
  /\ lab.input.features[1].geometry.geometries[2].type = "GeometryCollection"
  /\ Len(lab.input.features[1].geometry.geometries[2].geometries) = 2

\* the step hands the viewer a success message of the current runParse
SuccessApplied ==
  /\ toViewer # <<>> /\ toViewer' = Tail(toViewer)
  /\ Head(toViewer).status = "success"
  /\ \E e \in app.workerResolvers :
       e.id = Head(toViewer).id /\ e.jobId = app.parseRunId

\* C16: largeDataset.isLargeFile is true exactly when the size of the dropped
\* file is at least 100 MiB; when a success of the current parse is applied,
\* and as long as its result is shown, largeDataset.isLargeFeature is true
\* exactly when the decoded collection has at least 100,000 features, counted
\* before the sampling of Quick mode.
C16_LargeFlagsMatchThresholds ==
  [][ /\ app'.largeDataset.isLargeFile <=>
           app'.largeDataset.fileBytes >= 100 * 1024 * 1024
      /\ \A f \in 1..Len(Files) :
           pending' = Append(pending, [file |-> f, at |-> "arrayBuffer"])
             => app'.largeDataset.fileBytes = Files[f].size
      /\ SuccessApplied =>
           /\ app'.largeDataset.featureCount = Head(toViewer).collection.features
           /\ app'.largeDataset.isLargeFeature <=>
                Head(toViewer).collection.features >= 100000
      /\ (app'.result # NullRec /\ app'.currentCollection # NullRec) =>
           (app'.largeDataset.isLargeFeature <=>
              app'.currentCollection.total >= 100000) ]_vars

\* C16 witness: a file of exactly 100 MiB with exactly 100,000 features is
\* shown in Quick mode, sampled down to 25,000 features, and both flags are
\* set
C16_Witness ==
  /\ app.parseMode = "quick"
  /\ app.result # NullRec /\ app.currentCollection # NullRec
  /\ app.largeDataset.fileBytes = LARGE_FILE_BYTES
  /\ app.largeDataset.isLargeFile
  /\ app.currentCollection.total = LARGE_FEATURE_THRESHOLD
  /\ app.currentCollection.displayed = QUICK_SAMPLE_TARGET
  /\ app.largeDataset.isLargeFeature

\* detectSridFromPrj has run on the text of the bench
Detected == lab.kind = "prj" /\ lab.done

\* the fragments the text of the bench is made of, in their order
PartsOf(input) == [k \in 1..Len(input.parts) |-> PrjFragments[input.parts[k]]]

\* the codes of the authority fragments of the text, in their order
AuthorityCodes(fragments) ==
  LET with == SelectSeq(fragments, LAMBDA fragment : fragment.authority # 0)
  IN  [k \in 1..Len(with) |-> with[k].authority]

InCatalog(code) == \E i \in 1..Len(SRID_OPTIONS) : SRID_OPTIONS[i].code = code

\* the leftmost authority fragment of the text names a catalog code
AuthorityResolves(fragments) ==
  AuthorityCodes(fragments) # <<>> /\ InCatalog(AuthorityCodes(fragments)[1])

\* the catalog codes the pattern table finds in the text: spelled in digits
\* or named
PatternCodes(fragments) ==
  ({fragments[k].numeric : k \in 1..Len(fragments)}
     \cup {fragments[k].named : k \in 1..Len(fragments)}) \ {0}

HeuristicApplies(fragments) ==
  /\ \E k \in 1..Len(fragments) : fragments[k].tm
  /\ \E k \in 1..Len(fragments) : fragments[k].korea

C18_AuthorityFragmentDecides ==
  Detected =>
    \A k \in 1..Len(lab.input.parts) :
      InCatalog(PrjFragments[lab.input.parts[k]].authority)
        => lab.output = PrjFragments[lab.input.parts[k]].authority

\* the catalog codes the text spells in digits outside an authority fragment
NumericCodes(fragments) ==
  {fragments[k].numeric : k \in {j \in 1..Len(fragments) : fragments[j].authority = 0}} \ {0}

\* C19: when no authority fragment resolves and the text spells the numeric
\* code of one catalog entry c, detectSridFromPrj returns c, also when a
\* name fragment of another catalog entry matches the text.
C19_NumericCodeBeforeNames ==
  Detected =>
    LET fragments == PartsOf(lab.input)
    IN  \A c \in NumericCodes(fragments) :
          (AuthorityCodes(fragments) = <<>> /\ NumericCodes(fragments) = {c})
            => lab.output = c

\* the transform has run on the position of the bench
Reprojected == lab.kind = "position" /\ lab.done

\* C20: the function createTransformer returns maps a position of two
\* components to one of two and a position of three components to one of
\* three with the same third component; its first two components are those
\* the forward transform yields for the first two of the input.
C20_TransformKeepsThirdComponent ==
  Reprojected =>
    LET before  == lab.input.position
        after   == lab.output
        forward == Forward(sridToProj4(lab.input.srid), before[1], before[2])
    IN  /\ Len(after) = Len(before)
        /\ Len(before) = 3 => after[3] = before[3]
        /\ after[1] = forward[1] /\ after[2] = forward[2]

\* C20 witness: a position with a third component has been transformed and
\* its first two components have changed
C20_Witness ==
  /\ Reprojected
  /\ Len(lab.input.position) = 3
  /\ lab.input.position[3] = 123456
  /\ lab.output[1] # lab.input.position[1]
  /\ lab.output[2] # lab.input.position[2]

\* the layer step of the worker has run on the shape of the bench
LayerParsed == lab.kind = "layer" /\ lab.done

\* the stored shape with the transform of `srid` applied once to every
\* position
TransformedOnce(stored, srid) == reprojectGeometry(stored, srid)

\* C21: for a request with an override code of the catalog, the geometry of
\* every shape that is not null, in the collection the worker delivers, is
\* the stored geometry with the transform of the override applied exactly
\* once: the decoder leaves the coordinates as stored.
C21_OverrideTransformAppliedOnce ==
  (/\ LayerParsed
   /\ lab.input.srid \in SridCodes
   /\ lab.input.stored.type # "null")
    => /\ lab.output.decoded = lab.input.stored
       /\ lab.output.geometry = TransformedOnce(lab.input.stored, lab.input.srid)

\* the shape of the bench went through the layer step with no projection
\* applied to it
PassedThrough ==
  /\ LayerParsed
  /\ lab.input.stored.type # "null"
  /\ lab.output.status = "success"
  /\ ~lab.output.decoderTransformed
  /\ ~lab.output.transformerApplied

Summarized == lab.kind = "summary" /\ lab.done

\* the cell of the column `name` in a feature
CellOf(feature, name) ==
  feature[CHOOSE k \in 1..Len(ColumnNames) : ColumnNames[k] = name]

\* null, undefined and texts of nothing but spaces
CountsAsEmpty(cell) == cell.t = "null" \/ cell \in {Str(""), Str(" "), Str("  ")}

\* the features that hold a value for the column, and those whose value
\* is not empty
FeaturesWith(features, name) ==
  {i \in 1..Len(features) : CellOf(features[i], name).t # "absent"}

FilledFeatures(features, name) ==
  {i \in FeaturesWith(features, name) : ~CountsAsEmpty(CellOf(features[i], name))}

\* C23: in the result of summarizeCollection, filled is the number of
\* features with a value for the field that is not null, undefined or
\* blank, empty the number of features whose value is one of these, and
\* fillRate is filled / featureCount * 100; a field with no such value has
\* filled 0, fillRate 0 and dataType "null", a field filled in every
\* feature has fillRate 100.
C23_FillRate ==
  Summarized =>
    \A c \in 1..Len(lab.output.columns) :
      LET column == lab.output.columns[c]
          filled == Cardinality(FilledFeatures(lab.input.features, column.name))
          held   == Cardinality(FeaturesWith(lab.input.features, column.name))
          count  == Len(lab.input.features)
      IN  /\ column.filled = filled
          /\ column.empty = held - filled
          /\ column.fillRate.num * count = filled * 100 * column.fillRate.den
          /\ filled = 0 =>
               (column.filled = 0 /\ column.fillRate.num = 0 /\ column.dataType = "null")
          /\ filled = count => column.fillRate.num = 100 * column.fillRate.den

\* C23 witness: of three features, two hold a text and one a blank text
\* under "name", and the column reports two filled and one empty
C23_Witness ==
  /\ Summarized
  /\ Len(lab.input.features) = 3
  /\ lab.input.features[1][1] = Str("a")
  /\ lab.input.features[2][1] = Str("  ")
  /\ lab.input.features[3][1] = Str("b")
  /\ \E c \in 1..Len(lab.output.columns) :
       /\ lab.output.columns[c].name = "name"
       /\ lab.output.columns[c].filled = 2
       /\ lab.output.columns[c].empty = 1

\* the types detectValueType finds among the values of the column that
\* are not empty
TypesOf(features, name) ==
  {detectValueType(CellOf(features[i], name)) : i \in FilledFeatures(features, name)}

\* C24: the dataType of a column is the one type of its values that are
\* not empty when there is exactly one, "mixed" when there are several,
\* and "null" when every value of the column is empty.
C24_DataType ==
  Summarized =>
    \A c \in 1..Len(lab.output.columns) :
      LET column == lab.output.columns[c]
          types  == TypesOf(lab.input.features, column.name)
      IN  /\ Cardinality(types) = 1 => column.dataType \in types
          /\ Cardinality(types) > 1 => column.dataType = "mixed"
          /\ Cardinality(types) = 0 => column.dataType = "null"

\* C24 witness: a column of one type beside a column of two types, and a
\* value that is empty in the column of one type
C24_Witness ==
  /\ Summarized
  /\ Len(lab.input.features) = 3
  /\ lab.input.features[2][1] = Null
  /\ \E c, d \in 1..Len(lab.output.columns) :
       /\ lab.output.columns[c].name = "name"
       /\ lab.output.columns[c].dataType = "number"
       /\ lab.output.columns[c].filled = 2
       /\ lab.output.columns[d].name = "id"
       /\ lab.output.columns[d].dataType = "mixed"

\* the distinct values of the column that are not empty
DistinctValues(features, name) ==
  {CellOf(features[i], name) : i \in FilledFeatures(features, name)}

\* C25: uniqueCount of a column is the number of its distinct values that
\* are not empty when that number is at most the limit, and null when it
\* is above the limit; uniqueRatio is uniqueCount / featureCount, and null
\* whenever uniqueCount is null.
C25_UniqueCountCapped ==
  Summarized =>
    \A c \in 1..Len(lab.output.columns) :
      LET column   == lab.output.columns[c]
          distinct == Cardinality(DistinctValues(lab.input.features, column.name))
      IN  /\ distinct <= lab.input.limit =>
               /\ column.uniqueCount = Some(distinct)
               /\ ~column.uniqueRatio.null
               /\ column.uniqueRatio.num = distinct
               /\ column.uniqueRatio.den = Len(lab.input.features)
          /\ distinct > lab.input.limit =>
               (column.uniqueCount.null /\ column.uniqueRatio.null)

\* C25 witness: one column holds as many distinct values as the limit
\* allows and reports their number, another holds one more and reports null
C25_Witness ==
  /\ Summarized
  /\ lab.input.limit = MaxLimit
  /\ \E c, d \in 1..Len(lab.output.columns) :
       /\ lab.output.columns[c].uniqueCount = Some(MaxLimit)
       /\ lab.output.columns[d].uniqueCount.null
       /\ Cardinality(DistinctValues(lab.input.features, lab.output.columns[d].name))
            = MaxLimit + 1

\* C26: a column has a numeric summary only when its dataType is "number";
\* a column of any other dataType has numericSummary null.
C26_NumericSummaryOnlyForNumbers ==
  Summarized =>
    \A c \in 1..Len(lab.output.columns) :
      lab.output.columns[c].dataType # "number"
        => lab.output.columns[c].numericSummary.null

\* both passes have run over the archive of the bench
ArchiveRead == lab.kind = "archive" /\ lab.done

\* the entry is the member `ext` of the layer `base`: what is left of its
\* name after its last slash or backslash is the base, a dot and the
\* extension in small or capital letters
IsMemberOf(entry, base, ext) ==
  \E cut \in 0..Len(entry.filename) :
    /\ cut > 0 => entry.filename[cut] \in {"/", "\\"}
    /\ \A k \in (cut + 1)..Len(entry.filename) : entry.filename[k] \notin {"/", "\\"}
    /\ Len(entry.filename) - cut = Len(base) + 1 + Len(ext)
    /\ Len(base) > 0
    /\ SubSeq(entry.filename, cut + 1, cut + Len(base)) = base
    /\ entry.filename[cut + Len(base) + 1] = "."
    /\ ToLowerCase(SubSeq(entry.filename, cut + Len(base) + 2, Len(entry.filename))) = ext

\* the positions of the entries that are the member `ext` of `base`
MembersAt(entries, base, ext) ==
  {k \in 1..Len(entries) : IsMemberOf(entries[k], base, ext)}

First(positions) == CHOOSE k \in positions : \A other \in positions : k <= other

\* C27: when several entries of an archive are the .prj (or the .cpg) of
\* one layer, the field of the layer holds the trimmed text of the first
\* of them in the order of the archive.
C27_FirstTextEntryWins ==
  ArchiveRead =>
    \A i \in 1..Len(lab.output.files) :
      LET layer == lab.output.files[i]
          prjs  == MembersAt(lab.input, layer.fileName, Prj)
          cpgs  == MembersAt(lab.input, layer.fileName, Cpg)
      IN  /\ prjs # {} => layer.prj = Trim(lab.input[First(prjs)].text)
          /\ cpgs # {} => layer.cpg = Trim(lab.input[First(cpgs)].text)

\* the texts an entry name of the archive contains
NameParts(entries) ==
  UNION {{SubSeq(entries[k].filename, from, to) :
            from \in 1..Len(entries[k].filename), to \in 1..Len(entries[k].filename)} :
         k \in 1..Len(entries)}

LayerExtensions == {Shp, Dbf, Shx, Prj, Cpg}

\* the layer `base` has a member `ext` among the entries
HasMember(entries, base, ext) == MembersAt(entries, base, ext) # {}

\* the bases of the entries that are a member of a layer
LayerNamesOf(entries) ==
  {base \in NameParts(entries) : \E ext \in LayerExtensions : HasMember(entries, base, ext)}

Superseded(msg) ==
  \E entry \in app.workerResolvers : entry.id = msg.id /\ entry.jobId # app.parseRunId

\* the viewer handles a progress message in this step
ProgressHandled ==
  /\ toViewer # <<>>
  /\ Head(toViewer).status = "progress"
  /\ toViewer' = Tail(toViewer)

\* C29: a progress message of a superseded job does not change
\* parseProgress.
C29_SupersededProgressIgnored ==
  [][(ProgressHandled /\ Superseded(Head(toViewer)))
       => app'.parseProgress = app.parseProgress]_vars

\* C30: when the success of the current parse is applied in Quick mode for
\* a collection that holds a feature with geometry null, runParse ends with
\* the result set, the sampled collection shown and no error message.
C30_NullGeometryKeptInQuickMode ==
  [][(/\ SuccessApplied
      /\ app.parseMode = "quick"
      /\ Head(toViewer).collection.nullGeometry)
       => /\ app'.result # NullRec
          /\ app'.currentCollection # NullRec
          /\ app'.errorMessage = ""]_vars

\* the archive the request with this id was sent for (the request of a
\* success message has decoded at least one layer)
BufferOf(id) ==
  (CHOOSE d \in decodeLog : d.request.id = id).request.buffer

\* C31: once processFile has started for a newly dropped file, the outcome
\* of a parse that was started for an earlier file is not applied: when
\* runParse applies a success, its request was sent for the archive that
\* sourceBuffer holds, the one of the file dropped last.
C31_OutcomeOfEarlierFileNotApplied ==
  [][SuccessApplied => BufferOf(Head(toViewer).id) = app.sourceBuffer]_vars

\* the step sends a parse request to the worker
RequestSent == Len(toWorker') > Len(toWorker)

\* the step takes the user's choice in the large-dataset modal opened for
\* the size of the file
ChosenInLargeModal ==
  /\ app.largeModalVisible /\ app.largeModalReason = "file"
  /\ ~app'.largeModalVisible /\ app'.hasAcknowledgedLargeFile

\* C32: for a dropped file of at least 100 MiB no parse request is sent to
\* the worker before the user has chosen Quick or Full in the large-dataset
\* modal for that file: a request is sent by the step that takes that
\* choice, or after hasAcknowledgedLargeFile has recorded it.
C32_LargeFileParsedAfterChoice ==
  [][(RequestSent /\ app'.largeDataset.isLargeFile)
       => (ChosenInLargeModal \/ app.hasAcknowledgedLargeFile)]_vars

\* C33: the collection of a success message that the viewer applies holds
\* the features of every layer decoded for its request: each decoded layer
\* is part of the delivered collection, and the feature count shown is at
\* least that of every such layer together with the first.
C33_EveryLayerDelivered ==
  [][SuccessApplied =>
       \A d \in decodeLog :
         d.request.id = Head(toViewer).id =>
           /\ d.delivered
           /\ d.index > 1 =>
                app'.currentCollection.total >=
                  Head(toViewer).collection.features + d.layer.features]_vars

\* no processFile is suspended and no runParse awaits the worker
ViewerIdle == pending = <<>> /\ app.workerResolvers = {} /\ ~app.isLoading

\* C34: whenever no runParse update is in progress, result is non-null
\* exactly when currentCollection is non-null, and result is then the
\* summary of currentCollection.
C34_ResultMatchesCollection ==
  ViewerIdle =>
    /\ (app.result # NullRec) <=> (app.currentCollection # NullRec)
    /\ app.result # NullRec => app.result = Summary(app, app.currentCollection)

\* the entry of runParse that the message at the head of toViewer settles
SettledEntry == CHOOSE e \in app.workerResolvers : e.id = Head(toViewer).id

\* id is the id of one of the features shown: the ids of the decoded layer
\* are its indices, and the sample keeps every stride-th feature with its id
IsShownFeature(collection, id) ==
  /\ id \in 0..(collection.total - 1)
  /\ id % collection.stride = 0
  /\ id \div collection.stride \in 0..(collection.displayed - 1)

\* the try block of runParse has run to its end
ParseApplied == SuccessApplied /\ app'.result # NullRec

C36_FilledPlusEmptyIsFeatureCount ==
  Summarized =>
    \A c \in 1..Len(lab.output.columns) :
      lab.output.columns[c].filled + lab.output.columns[c].empty
        = lab.output.featureCount

\* C37: after ensureFeatureIds the id of every feature is the string form of
\* its properties.id, the value the map promotes to the feature id, and a
\* second application of ensureFeatureIds changes no id.
C37_IdIsPromotedId ==
  IdsAssigned =>
    /\ \A i \in 1..Len(lab.output) :
         /\ lab.output[i].properties.present
         /\ lab.output[i].id = toFeatureId(lab.output[i].properties.id)
    /\ \A i \in 1..Len(lab.output) :
         ensureFeatureIds(lab.output)[i].id = lab.output[i].id

\* C38: one SRID selection of the user after the first parse
\* (handleSridUpdate) causes at most one parse request, whether sridMode
\* was "file" or "manual" before.
C38_OneRequestPerSridSelection ==
  [][(\E code \in PickCodes : PickSridOnMap(code))
       => Len(toWorker') <= Len(toWorker) + 1]_vars

\* C39: in every reachable state largeModalVisible is true exactly when
\* largeModalReason is non-null, and the large-dataset modal and the SRID
\* modal are never visible at the same time.
C39_ModalsConsistent ==
  /\ app.largeModalVisible <=> app.largeModalReason # "null"
  /\ ~(app.largeModalVisible /\ app.sridModalVisible)

====
